---- MODULE Spec2Model ----
(***************************************************************************)
(* Model of the ContainerQueue library: the identity-indexed slot store    *)
(* UniqueIdQueue (single-threaded) and the blocking facade TimeoutQueue    *)
(* instantiated with the std::mutex / std::condition_variable traits.      *)
(***************************************************************************)
EXTENDS Integers, Sequences, FiniteSets, TLC

(***************************************************************************)
(* Bounds of the model.                                                    *)
(***************************************************************************)
\* Template parameter Capacity of UniqueIdQueue<T, Capacity>: the length of
\* the backing array; the runtime capacity_ ranges over 0..Capacity.
Capacity == 3
\* Number of threads calling into one TimeoutQueue.
NThreads == 2
\* Number of calls the threads make on the TimeoutQueue, all threads together.
MaxCalls == 3
\* Constructor argument of the TimeoutQueue.
TCapacity == 2

(***************************************************************************)
(* Program constants.                                                      *)
(***************************************************************************)
\* UniqueIdQueue::kNil is std::numeric_limits<std::size_t>::max() = 2^64-1.
\* Indices are compared for equality only, so the value is written as its
\* representative -1 modulo 2^64.
kNilU == -1

\* TimeoutQueue::kNil is std::numeric_limits<uint16_t>::max().
kNil == 65535

\* Queue::Status
Ok        == "Ok"
Full      == "Full"
Empty     == "Empty"
Null      == "Null"
Duplicate == "Duplicate"
NotFound  == "NotFound"
InvalidId == "InvalidId"
Timeout   == "Timeout"
Status    == {Ok, Full, Empty, Null, Duplicate, NotFound, InvalidId, Timeout}

(***************************************************************************)
(* Items.  An item is a caller-owned object <<identity, k>>: k tells apart *)
(* distinct objects that expose the same identity.  The identities         *)
(* Capacity and Capacity+1 are out of range for every capacity_.           *)
(***************************************************************************)
nullptr == <<-1, -1>>
Items   == {<<i, 0>> : i \in 0..(Capacity + 1)} \cup {<<0, 1>>}
Ids     == 0..(Capacity + 1)
GetId(c) == c[1]

\* struct Node default member initialisers
Node(nil) == [prev |-> nil, next |-> nil, data |-> nullptr]
\* Node::operator bool
NodeBool(n) == n.data # nullptr

(***************************************************************************)
(* UniqueIdQueue: pure operators on a store record                         *)
(*   [size_, capacity_, head_, tail_, data_].                              *)
(* Each call returns [q, status, out]: the store after the call, the       *)
(* returned status and the value of the output argument after the call.    *)
(***************************************************************************)
UniqueIdQueue(capacity) ==
    [size_ |-> 0, capacity_ |-> capacity, head_ |-> kNilU, tail_ |-> kNilU,
     data_ |-> [i \in 0..(Capacity - 1) |-> Node(kNilU)]]

size(q)  == q.size_
\* Variant of full with the comparison off by one.
full_OffByOne(q) == q.size_ = q.capacity_ + 1
full(q)  == q.size_ = q.capacity_
empty(q) == q.size_ = 0
IdValid(q, id) == id < q.capacity_

\* Variant of link that links the slot in front of the head.
link_AtHead(q, id) ==
    LET d1 == [q.data_ EXCEPT ![id].prev = kNilU, ![id].next = q.head_]
    IN  IF q.head_ # kNilU
        THEN [q EXCEPT !.data_ = [d1 EXCEPT ![q.head_].prev = id],
                       !.head_ = id]
        ELSE [q EXCEPT !.data_ = d1, !.head_ = id, !.tail_ = id]

\* Variant of link that does not set n.prev.
link_NoPrev(q, id) ==
    LET d1 == [q.data_ EXCEPT ![id].next = kNilU]
    IN  IF q.tail_ # kNilU
        THEN [q EXCEPT !.data_ = [d1 EXCEPT ![q.tail_].next = id],
                       !.tail_ = id]
        ELSE [q EXCEPT !.data_ = d1, !.head_ = id, !.tail_ = id]

\* link(Node& n), n being data_[id] with n.data already set
link(q, id) ==
    LET d1 == [q.data_ EXCEPT ![id].prev = q.tail_, ![id].next = kNilU]
    IN  IF q.tail_ # kNilU
        THEN [q EXCEPT !.data_ = [d1 EXCEPT ![q.tail_].next = id],
                       !.tail_ = id]
        ELSE [q EXCEPT !.data_ = d1, !.head_ = id, !.tail_ = id]

\* Variant of unlink that leaves tail_ alone when the last slot is unlinked.
unlink_KeepsTail(q, id) ==
    LET n  == q.data_[id]
        q1 == IF n.prev # kNilU
              THEN [q EXCEPT !.data_[n.prev].next = n.next]
              ELSE [q EXCEPT !.head_ = n.next]
        q2 == IF n.next # kNilU
              THEN [q1 EXCEPT !.data_[n.next].prev = n.prev]
              ELSE q1
    IN  [q2 EXCEPT !.data_[id] = Node(kNilU)]

\* Variant of unlink that does not reconnect the predecessor of the slot.
unlink_NoPrevPatch(q, id) ==
    LET n  == q.data_[id]
        q1 == IF n.prev # kNilU THEN q ELSE [q EXCEPT !.head_ = n.next]
        q2 == IF n.next # kNilU
              THEN [q1 EXCEPT !.data_[n.next].prev = n.prev]
              ELSE [q1 EXCEPT !.tail_ = n.prev]
    IN  [q2 EXCEPT !.data_[id] = Node(kNilU)]

\* Variant of unlink that clears n.data but leaves n.prev and n.next as
\* they were.
unlink_KeepsLinks(q, id) ==
    LET n  == q.data_[id]
        q1 == IF n.prev # kNilU
              THEN [q EXCEPT !.data_[n.prev].next = n.next]
              ELSE [q EXCEPT !.head_ = n.next]
        q2 == IF n.next # kNilU
              THEN [q1 EXCEPT !.data_[n.next].prev = n.prev]
              ELSE [q1 EXCEPT !.tail_ = n.prev]
    IN  [q2 EXCEPT !.data_[id].data = nullptr]

\* unlink(Node& n), n being data_[id]
unlink(q, id) ==
    LET n  == q.data_[id]
        q1 == IF n.prev # kNilU
              THEN [q EXCEPT !.data_[n.prev].next = n.next]
              ELSE [q EXCEPT !.head_ = n.next]
        q2 == IF n.next # kNilU
              THEN [q1 EXCEPT !.data_[n.next].prev = n.prev]
              ELSE [q1 EXCEPT !.tail_ = n.prev]
    IN  [q2 EXCEPT !.data_[id] = Node(kNilU)]

\* Variant of push that tests for a duplicate before it tests for full.
push_DuplicateFirst(q, c, o) ==
    LET id == GetId(c) IN
    IF IdValid(q, id) /\ NodeBool(q.data_[id])
    THEN [q |-> q, status |-> Duplicate, out |-> o]
    ELSE IF full(q) THEN [q |-> q, status |-> Full, out |-> o]
    ELSE IF ~IdValid(q, id) THEN [q |-> q, status |-> InvalidId, out |-> o]
    ELSE [q |-> [link([q EXCEPT !.data_[id].data = c], id)
                   EXCEPT !.size_ = @ + 1],
          status |-> Ok, out |-> o]

push(q, c, o) ==
    IF full(q) THEN [q |-> q, status |-> Full, out |-> o]
    ELSE LET id == GetId(c) IN
      IF ~IdValid(q, id) THEN [q |-> q, status |-> InvalidId, out |-> o]
      ELSE IF NodeBool(q.data_[id])
           THEN [q |-> q, status |-> Duplicate, out |-> o]
           ELSE LET q1 == [q EXCEPT !.data_[id].data = c]
                    q2 == link(q1, id)
                IN  [q |-> [q2 EXCEPT !.size_ = @ + 1], status |-> Ok,
                     out |-> o]

\* Variant of front that unlinks the head it returns.
front_Consumes(q, o) ==
    IF empty(q) THEN [q |-> q, status |-> Empty, out |-> o]
    ELSE LET q1 == unlink(q, q.head_)
         IN  [q |-> [q1 EXCEPT !.size_ = @ - 1], status |-> Ok,
              out |-> q.data_[q.head_].data]

\* Variant of front that clears the output argument before the empty test.
front_ClearsOut(q, o) ==
    IF empty(q) THEN [q |-> q, status |-> Empty, out |-> nullptr]
    ELSE [q |-> q, status |-> Ok, out |-> q.data_[q.head_].data]

front(q, o) ==
    IF empty(q) THEN [q |-> q, status |-> Empty, out |-> o]
    ELSE [q |-> q, status |-> Ok, out |-> q.data_[q.head_].data]

\* A pop that forgets size_--.
pop_NoDecrement(q, o) ==
    IF empty(q) THEN [q |-> q, status |-> Empty, out |-> o]
    ELSE [q |-> [unlink(q, q.head_) EXCEPT !.size_ = q.size_],
          status |-> Ok, out |-> q.data_[q.head_].data]

\* Variant of pop that returns the head and decrements size_ but leaves the
\* slot linked.
pop_NoUnlink(q, o) ==
    IF empty(q) THEN [q |-> q, status |-> Empty, out |-> o]
    ELSE [q |-> [q EXCEPT !.size_ = @ - 1], status |-> Ok,
          out |-> q.data_[q.head_].data]

\* Variant of pop that takes the tail slot instead of the head slot.
pop_FromTail(q, o) ==
    IF empty(q) THEN [q |-> q, status |-> Empty, out |-> o]
    ELSE LET q1 == unlink(q, q.tail_)
         IN  [q |-> [q1 EXCEPT !.size_ = @ - 1], status |-> Ok,
              out |-> q.data_[q.tail_].data]

pop(q, o) ==
    IF empty(q) THEN [q |-> q, status |-> Empty, out |-> o]
    ELSE LET q1 == unlink(q, q.head_)
         IN  [q |-> [q1 EXCEPT !.size_ = @ - 1], status |-> Ok,
              out |-> q.data_[q.head_].data]

\* Variant of remove(uint16_t) that answers NotFound for an identity out of
\* range.
removeId_NotFoundForInvalid(q, id, o) ==
    IF ~IdValid(q, id) THEN [q |-> q, status |-> NotFound, out |-> o]
    ELSE IF ~NodeBool(q.data_[id])
         THEN [q |-> q, status |-> NotFound, out |-> o]
         ELSE LET q1 == unlink(q, id)
              IN  [q |-> [q1 EXCEPT !.size_ = @ - 1], status |-> Ok,
                   out |-> o]

\* remove(uint16_t id)
removeId(q, id, o) ==
    IF ~IdValid(q, id) THEN [q |-> q, status |-> InvalidId, out |-> o]
    ELSE IF ~NodeBool(q.data_[id])
         THEN [q |-> q, status |-> NotFound, out |-> o]
         ELSE LET q1 == unlink(q, id)
              IN  [q |-> [q1 EXCEPT !.size_ = @ - 1], status |-> Ok,
                   out |-> o]

\* A remove(T&) that unlinks the slot only if it refers to the argument.
remove_ComparesReference(q, c, o) ==
    IF empty(q) THEN [q |-> q, status |-> Empty, out |-> o]
    ELSE IF IdValid(q, GetId(c)) /\ NodeBool(q.data_[GetId(c)])
            /\ q.data_[GetId(c)].data # c
         THEN [q |-> q, status |-> NotFound, out |-> o]
    ELSE removeId(q, GetId(c), o)

\* Variant of remove(T&) without the test for an empty store.
remove_NoEmptyTest(q, c, o) == removeId(q, GetId(c), o)

\* remove(T& c)
remove(q, c, o) ==
    IF empty(q) THEN [q |-> q, status |-> Empty, out |-> o]
    ELSE removeId(q, GetId(c), o)

\* The indices i of the expressions data_[i] that the call op(c) evaluates
\* on the store q: data_[id] in push and remove, data_[head_] in front and
\* pop, data_[tail_] in link, data_[n.prev] and data_[n.next] in unlink.
indices(op, q, c) ==
    LET id == GetId(c)
        in_link == IF q.tail_ # kNilU THEN {q.tail_} ELSE {}
        in_unlink(n) ==
            (IF q.data_[n].prev # kNilU THEN {q.data_[n].prev} ELSE {})
            \cup (IF q.data_[n].next # kNilU THEN {q.data_[n].next} ELSE {})
        in_removeId ==
            IF ~IdValid(q, id) THEN {}
            ELSE IF ~NodeBool(q.data_[id]) THEN {id}
            ELSE {id} \cup in_unlink(id)
    IN  CASE op = "push" ->
                 IF full(q) \/ ~IdValid(q, id) THEN {}
                 ELSE IF NodeBool(q.data_[id]) THEN {id}
                 ELSE {id} \cup in_link
          [] op = "front" -> IF empty(q) THEN {} ELSE {q.head_}
          [] op = "pop" ->
                 IF empty(q) THEN {} ELSE {q.head_} \cup in_unlink(q.head_)
          [] op = "remove" -> IF empty(q) THEN {} ELSE in_removeId
          [] op = "removeId" -> in_removeId
          [] OTHER -> {}

(***************************************************************************)
(* State.                                                                  *)
(*   uq    the UniqueIdQueue under test                                    *)
(*   out   the caller's output pointer, passed to front and pop            *)
(*   ret   the last completed call: [op, arg, status]                      *)
(*   pre   the two stores, the two output pointers and hist as they were   *)
(*         before that call; pre.last is the call made before it, with the *)
(*         item it linked or unlinked and the stores before it, if that    *)
(*         call was a push, pop or remove that returned Ok                 *)
(*   hist  history (not program state): the items whose latest push        *)
(*         returned Ok and that no Ok pop/remove has taken since, oldest   *)
(*         push first                                                      *)
(*   fresh history: no pop or remove has returned Ok since construction    *)
(***************************************************************************)
VARIABLES uq, out, ret, pre, hist, fresh

(***************************************************************************)
(* State of the TimeoutQueue and of the threads that call it.  Under the   *)
(* specification Spec the single caller is thread 1: it gives the          *)
(* TimeoutQueue the calls it gives the UniqueIdQueue, each run from its    *)
(* lock to its return in one step.                                         *)
(*   tq         the store members size_, capacity_, head_, tail_, data_    *)
(*   mutex_     the thread that holds the std::mutex, or NoThread          *)
(*   semaphore_ the threads blocked in the std::condition_variable         *)
(*   pc         per thread: the statement it executes next                 *)
(*   call       per thread: the call in progress [op, c, timeout]          *)
(*   outp       per thread: the caller's output pointer                    *)
(*   nloc       per thread: the slot index bound to unlink's Node& n       *)
(*   res        per thread: its last completed call [op, c, status, val]   *)
(*   lin, exp   history: the store obtained by running the calls one at a  *)
(*              time in the order in which they take the lock, and what    *)
(*              each call returns in that sequential run                   *)
(*   ncalls     history: the number of calls started                       *)
(*   slept      history, per thread: its current or last call has blocked  *)
(*              in the condition variable                                  *)
(***************************************************************************)
VARIABLES tq, mutex_, semaphore_, pc, call, outp, nloc, res, lin, exp, ncalls,
          slept

uvars == <<uq, out, ret, pre, hist, fresh>>
tvars == <<tq, mutex_, semaphore_, pc, call, outp, nloc, res, lin, exp, ncalls,
           slept>>

(***************************************************************************)
(* State of the StaticQueue and of its caller.                             *)
(*   sq      the members size_, tail_, head_, data_ and the template       *)
(*           parameter Capacity of the instantiation                       *)
(*   sout    the caller's variable passed to pop                           *)
(*   sret    the last completed call: [op, arg, status]                    *)
(*   spre    history: sq and pending as they were before that call         *)
(*   pending history: the elements whose push returned Ok and that no Ok   *)
(*           pop has returned yet, oldest push first                       *)
(*   wraps   history: how often head_ and tail_ have gone from the last    *)
(*           array element back to element 0, counted up to MaxWraps       *)
(***************************************************************************)
VARIABLES sq, sout, sret, spre, pending, wraps

svars == <<sq, sout, sret, spre, pending, wraps>>
vars == <<uvars, tvars, svars>>

NoCall == [op |-> "none", arg |-> nullptr, status |-> Ok]

(***************************************************************************)
(* StaticQueue<T, Capacity>: pure operators on a record of its members.    *)
(* The field Capacity is the template parameter of the instantiation, T is *)
(* int.                                                                    *)
(***************************************************************************)
\* Values of the elements the caller pushes.
Elements == {10, 20, 30}
\* Number of wrap-arounds of head_ and of tail_ the history tells apart.
MaxWraps == 2

\* StaticQueue() = default: size_{0}, tail_{0}, head_{0}; the elements of
\* data_ have no initialiser, garbage is what they hold after construction.
StaticQueue(N, garbage) ==
    [Capacity |-> N, size_ |-> 0, tail_ |-> 0, head_ |-> 0, data_ |-> garbage]

static_size(q)  == q.size_
static_full(q)  == q.size_ = q.Capacity
static_empty(q) == q.size_ = 0

static_push(q, element) ==
    IF static_full(q) THEN [q |-> q, status |-> Full]
    ELSE [q |-> [q EXCEPT !.data_[q.tail_] = element,
                          !.size_ = q.size_ + 1,
                          !.tail_ = (q.tail_ + 1) % q.Capacity],
          status |-> Ok]

\* static_pop with head_ that stays on the last array element instead of
\* going back to element 0.
static_pop_NoWrap(q, o) ==
    IF static_empty(q) THEN [q |-> q, out |-> o, status |-> Empty]
    ELSE [q |-> [q EXCEPT !.size_ = q.size_ - 1,
                          !.head_ = IF q.head_ + 1 < q.Capacity
                                    THEN q.head_ + 1 ELSE q.head_],
          out |-> q.data_[q.head_],
          status |-> Ok]

static_pop(q, o) ==
    IF static_empty(q) THEN [q |-> q, out |-> o, status |-> Empty]
    ELSE [q |-> [q EXCEPT !.size_ = q.size_ - 1,
                          !.head_ = (q.head_ + 1) % q.Capacity],
          out |-> q.data_[q.head_],
          status |-> Ok]

\* No call is made on a StaticQueue.
SInit ==
    /\ sq = StaticQueue(1, [i \in {0} |-> 0])
    /\ sout = 0
    /\ sret = NoCall
    /\ spre = [q |-> sq, pending |-> <<>>]
    /\ pending = <<>>
    /\ wraps = [head |-> 0, tail |-> 0]

Without(s, c) == SelectSeq(s, LAMBDA x : x # c)

\* The item a successful call takes out of the store: the head for pop, the
\* item stored under the identity for remove.
Taken(op, q, id) ==
    IF op = "pop" THEN q.data_[q.head_].data ELSE q.data_[id].data

(***************************************************************************)
(* TimeoutQueue: the store.  data_ is std::array<Node, kNil>; only the     *)
(* slots below capacity_ pass IdValid, so the model keeps those, and the   *)
(* index kNil (one past the end of the array) stands for every index that  *)
(* is out of bounds.                                                       *)
(***************************************************************************)
Threads  == 1..NThreads
\* One more thread, which only pushes (scenario SpecNotify); in the other
\* scenarios it makes no call.
Pusher   == NThreads + 1
AllThreads == Threads \cup {Pusher}
NoThread == 0
Timeouts == {-1, 0, 1}
\* The containers of the callers: identities 0..TCapacity-1 are valid,
\* TCapacity is out of range.
TItems   == {<<i, 0>> : i \in 0..TCapacity}

TimeoutQueue(capacity) ==
    [size_ |-> 0, capacity_ |-> capacity, head_ |-> kNil, tail_ |-> kNil,
     data_ |-> [i \in 0..(capacity - 1) |-> Node(kNil)]]

size_impl(q)  == q.size_
full_impl(q)  == size_impl(q) = q.capacity_
empty_impl(q) == size_impl(q) = 0

\* What a read outside the array can yield: whatever the bytes behind the
\* array hold, here a null or a non-null pointer, no link or a slot index.
Garbage(f) == IF f = "data" THEN {nullptr, <<0, 0>>} ELSE {kNil, 0}

\* data_[i].f as an lvalue.  A read of a slot outside the array yields an
\* arbitrary value; a write to it lands outside the store.
Rd(q, i, f) ==
    IF i \in DOMAIN q.data_ THEN {q.data_[i][f]} ELSE Garbage(f)
Wr(q, i, f, v) ==
    IF i \in DOMAIN q.data_ THEN [q EXCEPT !.data_[i][f] = v] ELSE q

\* The statements of link(Node& n), n being data_[id].
link_s1(q, id) == Wr(Wr(q, id, "prev", q.tail_), id, "next", kNil)
link_s2(q, id) ==
    IF q.tail_ # kNil THEN Wr(q, q.tail_, "next", id)
    ELSE [q EXCEPT !.head_ = id]
link_s3(q, id) == [q EXCEPT !.tail_ = id]

\* The statements of unlink(Node& n); np and nn are the values read from
\* n.prev and n.next by the statement.
unlink_s1(q, np, nn) ==
    IF np # kNil THEN Wr(q, np, "next", nn) ELSE [q EXCEPT !.head_ = nn]
unlink_s2(q, np, nn) ==
    IF nn # kNil THEN Wr(q, nn, "prev", np) ELSE [q EXCEPT !.tail_ = np]
unlink_s3(q, n) ==
    Wr(Wr(Wr(q, n, "prev", kNil), n, "next", kNil), n, "data", nullptr)

\* size_++ and size_-- on std::size_t.  Only equality with 0 and capacity_
\* is ever tested, so a value is written as its representative modulo 2^64
\* closest to 0: -1 stands for 2^64-1, the result of decrementing 0.
inc_size(q) == [q EXCEPT !.size_ = @ + 1]
dec_size(q) == [q EXCEPT !.size_ = @ - 1]

(***************************************************************************)
(* The calls of TimeoutQueue run alone, from lock to unlock, on a store    *)
(* whose chain is intact: what a single-threaded caller observes.          *)
(***************************************************************************)
seq_link(q, id) == link_s3(link_s2(link_s1(q, id), id), id)
seq_unlink(q, n) ==
    LET q1 == unlink_s1(q, q.data_[n].prev, q.data_[n].next)
        q2 == unlink_s2(q1, q1.data_[n].prev, q1.data_[n].next)
    IN  unlink_s3(q2, n)

\* A push that tests the identity before it tests for a full queue.
seq_push_IdFirst(q, c, o) ==
    IF ~(GetId(c) < q.capacity_)
    THEN [q |-> q, status |-> InvalidId, out |-> o, val |-> 0]
    ELSE IF full_impl(q) THEN [q |-> q, status |-> Full, out |-> o, val |-> 0]
    ELSE IF NodeBool(q.data_[GetId(c)])
         THEN [q |-> q, status |-> Duplicate, out |-> o, val |-> 0]
    ELSE [q |-> inc_size(seq_link(Wr(q, GetId(c), "data", c), GetId(c))),
          status |-> Ok, out |-> o, val |-> 0]

\* A push whose identity test accepts id == capacity_.
seq_push_IdUpToCapacity(q, c, o) ==
    IF full_impl(q) THEN [q |-> q, status |-> Full, out |-> o, val |-> 0]
    ELSE IF ~(GetId(c) <= q.capacity_)
         THEN [q |-> q, status |-> InvalidId, out |-> o, val |-> 0]
    ELSE IF GetId(c) \in DOMAIN q.data_ /\ NodeBool(q.data_[GetId(c)])
         THEN [q |-> q, status |-> Duplicate, out |-> o, val |-> 0]
    ELSE [q |-> inc_size(seq_link(Wr(q, GetId(c), "data", c), GetId(c))),
          status |-> Ok, out |-> o, val |-> 0]

seq_push(q, c, o) ==
    IF full_impl(q) THEN [q |-> q, status |-> Full, out |-> o, val |-> 0]
    ELSE IF ~(GetId(c) < q.capacity_)
         THEN [q |-> q, status |-> InvalidId, out |-> o, val |-> 0]
    ELSE IF NodeBool(q.data_[GetId(c)])
         THEN [q |-> q, status |-> Duplicate, out |-> o, val |-> 0]
    ELSE [q |-> inc_size(seq_link(Wr(q, GetId(c), "data", c), GetId(c))),
          status |-> Ok, out |-> o, val |-> 0]

\* A front that reads the tail instead of the head.
seq_front_Tail(q, o) ==
    IF empty_impl(q) THEN [q |-> q, status |-> Empty, out |-> o, val |-> 0]
    ELSE [q |-> q, status |-> Ok, out |-> q.data_[q.tail_].data, val |-> 0]

seq_front(q, o) ==
    IF empty_impl(q) THEN [q |-> q, status |-> Empty, out |-> o, val |-> 0]
    ELSE [q |-> q, status |-> Ok, out |-> q.data_[q.head_].data, val |-> 0]

seq_pop(q, o) ==
    IF empty_impl(q) THEN [q |-> q, status |-> Empty, out |-> o, val |-> 0]
    ELSE [q |-> dec_size(seq_unlink(q, q.head_)), status |-> Ok,
          out |-> q.data_[q.head_].data, val |-> 0]

seq_remove(q, c, o) ==
    IF empty_impl(q) THEN [q |-> q, status |-> Empty, out |-> o, val |-> 0]
    ELSE IF ~(GetId(c) < q.capacity_)
         THEN [q |-> q, status |-> InvalidId, out |-> o, val |-> 0]
    ELSE IF ~NodeBool(q.data_[GetId(c)])
         THEN [q |-> q, status |-> NotFound, out |-> o, val |-> 0]
    ELSE [q |-> dec_size(seq_unlink(q, GetId(c))), status |-> Ok,
          out |-> o, val |-> 0]

\* The indices i of the expressions data_[i] that the call op(c) evaluates
\* on the store q when it runs alone.
indices_impl(op, q, c) ==
    LET id == GetId(c)
        in_link == IF q.tail_ # kNil THEN {q.tail_} ELSE {}
        in_unlink(n) ==
            (IF q.data_[n].prev # kNil THEN {q.data_[n].prev} ELSE {})
            \cup (IF q.data_[n].next # kNil THEN {q.data_[n].next} ELSE {})
    IN  CASE op = "push" ->
                 IF full_impl(q) \/ ~(id < q.capacity_) THEN {}
                 ELSE IF NodeBool(q.data_[id]) THEN {id}
                 ELSE {id} \cup in_link
          [] op = "front" -> IF empty_impl(q) THEN {} ELSE {q.head_}
          [] op = "pop" ->
                 IF empty_impl(q) THEN {}
                 ELSE {q.head_} \cup in_unlink(q.head_)
          [] op \in {"remove", "removeId"} ->
                 IF empty_impl(q) \/ ~(id < q.capacity_) THEN {}
                 ELSE IF ~NodeBool(q.data_[id]) THEN {id}
                 ELSE {id} \cup in_unlink(id)
          [] OTHER -> {}

seq_size(q, o) == [q |-> q, status |-> Ok, out |-> o, val |-> size_impl(q)]

seq_call(q, cl, o) ==
    CASE cl.op = "push"   -> seq_push(q, cl.c, o)
      [] cl.op = "front"  -> seq_front(q, o)
      [] cl.op = "pop"    -> seq_pop(q, o)
      [] cl.op = "remove" -> seq_remove(q, cl.c, o)
      [] cl.op = "size"   -> seq_size(q, o)

(***************************************************************************)
(* The threads.                                                            *)
(***************************************************************************)
NoOp   == [op |-> "none", c |-> nullptr, timeout |-> 0]
NoRes  == [op |-> "none", c |-> nullptr, timeout |-> 0, status |-> Ok,
           val |-> 0]
NoExp  == [status |-> Ok, out |-> nullptr, val |-> 0]

\* pre.last when the call before the last one linked or unlinked nothing.
NoLast == [op |-> "none", c |-> nullptr, q |-> UniqueIdQueue(0),
           tq |-> TimeoutQueue(0)]

\* The calls a thread can make.
Calls ==
    [op : {"push", "remove"}, c : TItems, timeout : {0}]
    \cup [op : {"pop"}, c : {nullptr}, timeout : Timeouts]
    \cup [op : {"front", "size"}, c : {nullptr}, timeout : {0}]

\* First statement of each call.
Entry(op) ==
    CASE op = "push"   -> "push_lock"
      [] op = "front"  -> "front_lock"
      [] op = "pop"    -> "wait_lock"
      [] op = "remove" -> "remove_lock"
      [] op = "size"   -> "size_lock"

\* The queue after single-threaded pushes of the identities 0..k-1.
RECURSIVE Prefilled(_)
Prefilled(k) ==
    IF k = 0 THEN TimeoutQueue(TCapacity)
    ELSE seq_push(Prefilled(k - 1), <<k - 1, 0>>, nullptr).q

\* No call has been made on the TimeoutQueue tq.
TInit ==
    /\ mutex_ = NoThread
    /\ semaphore_ = {}
    /\ pc = [t \in AllThreads |-> "idle"]
    /\ call = [t \in AllThreads |-> NoOp]
    /\ outp = [t \in AllThreads |-> nullptr]
    /\ nloc = [t \in AllThreads |-> kNil]
    /\ res = [t \in AllThreads |-> NoRes]
    /\ lin = tq
    /\ exp = [t \in AllThreads |-> NoExp]
    /\ ncalls = 0
    /\ slept = [t \in AllThreads |-> FALSE]

\* A segmentation fault ends the process.
Alive == \A t \in AllThreads : pc[t] # "segv"

Goto(t, l) == pc' = [pc EXCEPT ![t] = l]

\* The call of thread t returns status st (and value v).
Return(t, st, v) ==
    /\ pc' = [pc EXCEPT ![t] = "idle"]
    /\ res' = [res EXCEPT ![t] = [op |-> call[t].op, c |-> call[t].c,
                                  timeout |-> call[t].timeout,
                                  status |-> st, val |-> v]]
    /\ call' = [call EXCEPT ![t] = NoOp]
    /\ nloc' = [nloc EXCEPT ![t] = kNil]

\* std::mutex::lock: blocks until the mutex is free.
Lock(t) == mutex_ = NoThread /\ mutex_' = t

\* std::mutex::unlock.  Unlocking a mutex the thread does not hold is
\* undefined: the mutex is released whoever holds it, or left as it is.
Unlock(t) ==
    IF mutex_ = t THEN mutex_' = NoThread
    ELSE mutex_' \in {NoThread, mutex_}

\* The call of thread t takes its place in the sequential order.
Linearize(t) ==
    LET r == seq_call(lin, call[t], outp[t]) IN
    /\ lin' = r.q
    /\ exp' = [exp EXCEPT ![t] = [status |-> r.status, out |-> r.out,
                                  val |-> r.val]]

\* Thread t starts call cl.
Start(t, cl) ==
    /\ Alive /\ pc[t] = "idle"
    /\ call' = [call EXCEPT ![t] = cl]
    /\ pc' = [pc EXCEPT ![t] = Entry(cl.op)]
    /\ res' = [res EXCEPT ![t] = NoRes]
    /\ exp' = [exp EXCEPT ![t] = NoExp]
    /\ ncalls' = ncalls + 1
    /\ slept' = [slept EXCEPT ![t] = FALSE]
    /\ UNCHANGED <<tq, mutex_, semaphore_, outp, nloc, lin, uvars, svars>>

\* Thread t starts call cl, one of at most MaxCalls calls.
Begin(t, cl) == ncalls < MaxCalls /\ Start(t, cl)

Call(t) == \E cl \in Calls : Begin(t, cl)

At(t, l) == Alive /\ pc[t] = l

----------------------------------------------------------------------------
\* push(T& c)

\* A push that enters its critical section without acquiring mutex_.
PushLock_NoLock(t) ==
    /\ At(t, "push_lock") /\ Linearize(t) /\ Goto(t, "push_full")
    /\ UNCHANGED <<tq, mutex_, semaphore_, call, outp, nloc, res, ncalls,
                   uvars, svars, slept>>

\* TMutexTrait::lock(mutex_)
PushLock(t) ==
    /\ At(t, "push_lock") /\ Lock(t) /\ Linearize(t) /\ Goto(t, "push_full")
    /\ UNCHANGED <<tq, semaphore_, call, outp, nloc, res, ncalls, uvars, svars, slept>>

\* if (full_impl()) ...; id = c.GetId(); if (!IdValid(id)) ...
PushFull(t) ==
    /\ At(t, "push_full")
    /\ IF full_impl(tq) THEN Unlock(t) /\ Return(t, Full, 0)
       ELSE IF ~(GetId(call[t].c) < tq.capacity_)
            THEN Unlock(t) /\ Return(t, InvalidId, 0)
            ELSE Goto(t, "push_node")
                 /\ UNCHANGED <<mutex_, res, call, nloc>>
    /\ UNCHANGED <<tq, semaphore_, outp, lin, exp, ncalls, uvars, svars, slept>>

\* auto &node = data_[id]; if (node) ...
PushNode(t) ==
    /\ At(t, "push_node")
    /\ IF NodeBool(tq.data_[GetId(call[t].c)])
       THEN Unlock(t) /\ Return(t, Duplicate, 0)
       ELSE Goto(t, "push_fill") /\ UNCHANGED <<mutex_, res, call, nloc>>
    /\ UNCHANGED <<tq, semaphore_, outp, lin, exp, ncalls, uvars, svars, slept>>

\* node.data = &c
PushFill(t) ==
    /\ At(t, "push_fill")
    /\ tq' = Wr(tq, GetId(call[t].c), "data", call[t].c)
    /\ Goto(t, "link_1")
    /\ UNCHANGED <<mutex_, semaphore_, call, outp, nloc, res, lin, exp,
                   ncalls, uvars, svars, slept>>

\* link: id = n.data->GetId(); n.prev = tail_; n.next = kNil.  n.data is
\* read again: if a racing unlink has cleared it, the null pointer is
\* dereferenced.
Link1(t) ==
    /\ At(t, "link_1")
    /\ LET d == tq.data_[GetId(call[t].c)].data IN
       IF d = nullptr
       THEN Goto(t, "segv") /\ UNCHANGED <<tq, nloc>>
       ELSE /\ nloc' = [nloc EXCEPT ![t] = GetId(d)]
            /\ tq' = link_s1(tq, GetId(call[t].c))
            /\ Goto(t, "link_2")
    /\ UNCHANGED <<mutex_, semaphore_, call, outp, res, lin, exp, ncalls,
                   uvars, svars, slept>>

\* link: if (tail_ != kNil) data_[tail_].next = id; else head_ = id;
Link2(t) ==
    /\ At(t, "link_2")
    /\ tq' = link_s2(tq, nloc[t])
    /\ Goto(t, "link_3")
    /\ UNCHANGED <<mutex_, semaphore_, call, outp, nloc, res, lin, exp,
                   ncalls, uvars, svars, slept>>

\* link: tail_ = id
Link3(t) ==
    /\ At(t, "link_3")
    /\ tq' = link_s3(tq, nloc[t])
    /\ Goto(t, "push_size")
    /\ UNCHANGED <<mutex_, semaphore_, call, outp, nloc, res, lin, exp,
                   ncalls, uvars, svars, slept>>

\* size_++
PushSize(t) ==
    /\ At(t, "push_size")
    /\ tq' = inc_size(tq)
    /\ Goto(t, "push_unlock")
    /\ UNCHANGED <<mutex_, semaphore_, call, outp, nloc, res, lin, exp,
                   ncalls, uvars, svars, slept>>

\* TMutexTrait::unlock(mutex_)
PushUnlock(t) ==
    /\ At(t, "push_unlock")
    /\ Unlock(t)
    /\ Goto(t, "push_notify")
    /\ UNCHANGED <<tq, semaphore_, call, outp, nloc, res, lin, exp, ncalls,
                   uvars, svars, slept>>

\* A push that returns without notifying the condition variable.
PushNotify_NoNotify(t) ==
    /\ At(t, "push_notify")
    /\ Return(t, Ok, 0)
    /\ UNCHANGED <<tq, mutex_, semaphore_, outp, lin, exp, ncalls, uvars, svars, slept>>

\* TSemaphoreTrait::notify(semaphore_): cv.notify_one(); return Status::Ok
PushNotify(t) ==
    /\ At(t, "push_notify")
    /\ IF semaphore_ = {}
       THEN /\ UNCHANGED semaphore_
            /\ Return(t, Ok, 0)
       ELSE \E w \in semaphore_ :
            /\ semaphore_' = semaphore_ \ {w}
            /\ pc' = [pc EXCEPT ![t] = "idle", ![w] = "wait_relock"]
            /\ res' = [res EXCEPT ![t] = [op |-> call[t].op, c |-> call[t].c,
                                          timeout |-> call[t].timeout,
                                          status |-> Ok, val |-> 0]]
            /\ call' = [call EXCEPT ![t] = NoOp]
            /\ nloc' = [nloc EXCEPT ![t] = kNil]
    /\ UNCHANGED <<tq, mutex_, outp, lin, exp, ncalls, uvars, svars, slept>>

----------------------------------------------------------------------------
\* front(T*& out)

FrontLock(t) ==
    /\ At(t, "front_lock") /\ Lock(t) /\ Linearize(t) /\ Goto(t, "front_check")
    /\ UNCHANGED <<tq, semaphore_, call, outp, nloc, res, ncalls, uvars, svars, slept>>

\* if (empty_impl()) { unlock; return Empty; }
FrontCheck(t) ==
    /\ At(t, "front_check")
    /\ IF empty_impl(tq) THEN Unlock(t) /\ Return(t, Empty, 0)
       ELSE Goto(t, "front_read") /\ UNCHANGED <<mutex_, res, call, nloc>>
    /\ UNCHANGED <<tq, semaphore_, outp, lin, exp, ncalls, uvars, svars, slept>>

\* out = data_[head_].data
FrontRead(t) ==
    /\ At(t, "front_read")
    /\ \E v \in Rd(tq, tq.head_, "data") : outp' = [outp EXCEPT ![t] = v]
    /\ Goto(t, "front_unlock")
    /\ UNCHANGED <<tq, mutex_, semaphore_, call, nloc, res, lin, exp, ncalls,
                   uvars, svars, slept>>

\* unlock; return Ok
FrontUnlock(t) ==
    /\ At(t, "front_unlock")
    /\ Unlock(t) /\ Return(t, Ok, 0)
    /\ UNCHANGED <<tq, semaphore_, outp, lin, exp, ncalls, uvars, svars, slept>>

----------------------------------------------------------------------------
\* pop(T*& out, long timeout_us): TSemaphoreTrait::wait(semaphore_, mutex_,
\* pred, timeout_us) with pred = !empty_impl()

\* std::unique_lock<std::mutex> lock(mtx)
WaitLock(t) ==
    /\ At(t, "wait_lock") /\ Lock(t) /\ Goto(t, "wait_pred")
    /\ UNCHANGED <<tq, semaphore_, call, outp, nloc, res, lin, exp, ncalls,
                   uvars, svars, slept>>

\* wait returns b: the unique_lock goes out of scope and releases the mutex;
\* pop returns Empty if b is false and goes on to read data_[head_] if true.
WaitReturns(t, b) ==
    /\ Unlock(t)
    /\ Linearize(t)
    /\ IF b THEN Goto(t, "pop_read") /\ UNCHANGED <<res, call, nloc>>
       ELSE Return(t, Empty, 0)
    /\ UNCHANGED semaphore_

\* The predicate test of cv.wait(lock, pred), of return pred(), and of
\* cv.wait_for(lock, d, pred): with timeout_us == 0 the result is returned;
\* otherwise a false predicate releases the mutex and blocks the thread.
WaitPred(t) ==
    /\ At(t, "wait_pred")
    /\ IF ~empty_impl(tq) THEN WaitReturns(t, TRUE) /\ UNCHANGED slept
       ELSE IF call[t].timeout = 0
            THEN WaitReturns(t, FALSE) /\ UNCHANGED slept
       ELSE /\ mutex_' = NoThread
            /\ semaphore_' = semaphore_ \cup {t}
            /\ slept' = [slept EXCEPT ![t] = TRUE]
            /\ Goto(t, "wait_blocked")
            /\ UNCHANGED <<res, call, nloc, lin, exp>>
    /\ UNCHANGED <<tq, outp, ncalls, uvars, svars>>

\* A condition variable may wake a waiter without a notify.
WaitSpurious(t) ==
    /\ At(t, "wait_blocked") /\ t \in semaphore_
    /\ semaphore_' = semaphore_ \ {t}
    /\ Goto(t, "wait_relock")
    /\ UNCHANGED <<tq, mutex_, call, outp, nloc, res, lin, exp, ncalls, uvars, svars, slept>>

\* wait_for: the duration has elapsed.
WaitTimeout(t) ==
    /\ At(t, "wait_blocked") /\ t \in semaphore_ /\ call[t].timeout > 0
    /\ semaphore_' = semaphore_ \ {t}
    /\ Goto(t, "wait_expired")
    /\ UNCHANGED <<tq, mutex_, call, outp, nloc, res, lin, exp, ncalls, uvars, svars, slept>>

\* The woken waiter takes the mutex again and tests the predicate again.
WaitRelock(t) ==
    /\ At(t, "wait_relock") /\ Lock(t) /\ Goto(t, "wait_pred")
    /\ UNCHANGED <<tq, semaphore_, call, outp, nloc, res, lin, exp, ncalls,
                   uvars, svars, slept>>

\* wait_for after the duration has elapsed: lock again, return pred().
WaitExpiredLock(t) ==
    /\ At(t, "wait_expired") /\ Lock(t) /\ Goto(t, "wait_last")
    /\ UNCHANGED <<tq, semaphore_, call, outp, nloc, res, lin, exp, ncalls,
                   uvars, svars, slept>>

WaitLast(t) ==
    /\ At(t, "wait_last")
    /\ WaitReturns(t, ~empty_impl(tq))
    /\ UNCHANGED <<tq, outp, ncalls, uvars, svars, slept>>

\* out = data_[head_].data
PopRead(t) ==
    /\ At(t, "pop_read")
    /\ \E v \in Rd(tq, tq.head_, "data") : outp' = [outp EXCEPT ![t] = v]
    /\ Goto(t, "pop_bind")
    /\ UNCHANGED <<tq, mutex_, semaphore_, call, nloc, res, lin, exp, ncalls,
                   uvars, svars, slept>>

\* unlink(data_[head_]): the argument is bound
PopBind(t) ==
    /\ At(t, "pop_bind")
    /\ nloc' = [nloc EXCEPT ![t] = tq.head_]
    /\ Goto(t, "unlink_1")
    /\ UNCHANGED <<tq, mutex_, semaphore_, call, outp, res, lin, exp, ncalls,
                   uvars, svars, slept>>

----------------------------------------------------------------------------
\* unlink(Node& n), called by pop and by remove

\* if (n.prev != kNil) data_[n.prev].next = n.next; else head_ = n.next;
Unlink1(t) ==
    /\ At(t, "unlink_1")
    /\ \E np \in Rd(tq, nloc[t], "prev"), nn \in Rd(tq, nloc[t], "next") :
          tq' = unlink_s1(tq, np, nn)
    /\ Goto(t, "unlink_2")
    /\ UNCHANGED <<mutex_, semaphore_, call, outp, nloc, res, lin, exp,
                   ncalls, uvars, svars, slept>>

\* if (n.next != kNil) data_[n.next].prev = n.prev; else tail_ = n.prev;
Unlink2(t) ==
    /\ At(t, "unlink_2")
    /\ \E np \in Rd(tq, nloc[t], "prev"), nn \in Rd(tq, nloc[t], "next") :
          tq' = unlink_s2(tq, np, nn)
    /\ Goto(t, "unlink_3")
    /\ UNCHANGED <<mutex_, semaphore_, call, outp, nloc, res, lin, exp,
                   ncalls, uvars, svars, slept>>

\* n.prev = kNil; n.next = kNil; n.data = nullptr;
Unlink3(t) ==
    /\ At(t, "unlink_3")
    /\ tq' = unlink_s3(tq, nloc[t])
    /\ Goto(t, "dec_size")
    /\ UNCHANGED <<mutex_, semaphore_, call, outp, nloc, res, lin, exp,
                   ncalls, uvars, svars, slept>>

\* size_--
DecSize(t) ==
    /\ At(t, "dec_size")
    /\ tq' = dec_size(tq)
    /\ Goto(t, "last_unlock")
    /\ UNCHANGED <<mutex_, semaphore_, call, outp, nloc, res, lin, exp,
                   ncalls, uvars, svars, slept>>

\* TMutexTrait::unlock(mutex_); return Status::Ok
LastUnlock(t) ==
    /\ At(t, "last_unlock")
    /\ Unlock(t) /\ Return(t, Ok, 0)
    /\ UNCHANGED <<tq, semaphore_, outp, lin, exp, ncalls, uvars, svars, slept>>

----------------------------------------------------------------------------
\* remove(T& c)

RemoveLock(t) ==
    /\ At(t, "remove_lock") /\ Lock(t) /\ Linearize(t)
    /\ Goto(t, "remove_check")
    /\ UNCHANGED <<tq, semaphore_, call, outp, nloc, res, ncalls, uvars, svars, slept>>

\* if (empty_impl()) ...; id = c.GetId(); if (!IdValid(id)) ...
RemoveCheck(t) ==
    /\ At(t, "remove_check")
    /\ IF empty_impl(tq) THEN Unlock(t) /\ Return(t, Empty, 0)
       ELSE IF ~(GetId(call[t].c) < tq.capacity_)
            THEN Unlock(t) /\ Return(t, InvalidId, 0)
            ELSE Goto(t, "remove_node")
                 /\ UNCHANGED <<mutex_, res, call, nloc>>
    /\ UNCHANGED <<tq, semaphore_, outp, lin, exp, ncalls, uvars, svars, slept>>

\* auto &node = data_[id]; if (!node) ...; unlink(node)
RemoveNode(t) ==
    /\ At(t, "remove_node")
    /\ IF ~NodeBool(tq.data_[GetId(call[t].c)])
       THEN Unlock(t) /\ Return(t, NotFound, 0)
       ELSE /\ nloc' = [nloc EXCEPT ![t] = GetId(call[t].c)]
            /\ Goto(t, "unlink_1")
            /\ UNCHANGED <<mutex_, res, call>>
    /\ UNCHANGED <<tq, semaphore_, outp, lin, exp, ncalls, uvars, svars, slept>>

----------------------------------------------------------------------------
\* size()

SizeLock(t) ==
    /\ At(t, "size_lock") /\ Lock(t) /\ Linearize(t) /\ Goto(t, "size_read")
    /\ UNCHANGED <<tq, semaphore_, call, outp, nloc, res, ncalls, uvars, svars, slept>>

\* auto const size{size_impl()}; unlock; return size
SizeRead(t) ==
    /\ At(t, "size_read")
    /\ Unlock(t) /\ Return(t, Ok, size_impl(tq))
    /\ UNCHANGED <<tq, semaphore_, outp, lin, exp, ncalls, uvars, svars, slept>>

----------------------------------------------------------------------------
PushSteps(t) ==
    \/ PushLock(t) \/ PushFull(t) \/ PushNode(t) \/ PushFill(t)
    \/ Link1(t) \/ Link2(t) \/ Link3(t)
    \/ PushSize(t) \/ PushUnlock(t) \/ PushNotify(t)

FrontSteps(t) ==
    FrontLock(t) \/ FrontCheck(t) \/ FrontRead(t) \/ FrontUnlock(t)

WaitSteps(t) ==
    \/ WaitLock(t) \/ WaitPred(t) \/ WaitSpurious(t) \/ WaitRelock(t)

TimedWaitSteps(t) ==
    WaitTimeout(t) \/ WaitExpiredLock(t) \/ WaitLast(t)

UnlinkSteps(t) ==
    \/ PopRead(t) \/ PopBind(t)
    \/ Unlink1(t) \/ Unlink2(t) \/ Unlink3(t) \/ DecSize(t) \/ LastUnlock(t)

RemoveSteps(t) == RemoveLock(t) \/ RemoveCheck(t) \/ RemoveNode(t)

SizeSteps(t) == SizeLock(t) \/ SizeRead(t)

NextTQ ==
    \E t \in Threads :
        \/ Call(t)
        \/ PushSteps(t) \/ FrontSteps(t) \/ WaitSteps(t) \/ TimedWaitSteps(t)
        \/ UnlinkSteps(t) \/ RemoveSteps(t) \/ SizeSteps(t)

\* The threads start on a queue that holds between 0 and capacity_ items.
InitTQ ==
    /\ uq = UniqueIdQueue(Capacity) /\ out = nullptr /\ ret = NoCall
    /\ hist = <<>> /\ fresh = TRUE
    /\ tq \in {Prefilled(k) : k \in 0..TCapacity}
    /\ pre = [q |-> uq, out |-> nullptr, hist |-> <<>>, tq |-> tq,
              outp |-> nullptr, last |-> NoLast]
    /\ TInit
    /\ SInit

\* Threads calling into one TimeoutQueue, in every interleaving.
SpecTQ == InitTQ /\ [][NextTQ]_vars

\* The steps thread t takes by itself once its call has started: the
\* scheduler runs it, and the duration of a timed wait elapses.  Starting a
\* call and a spurious wake-up are possible but not guaranteed.
Proceed(t) ==
    \/ PushSteps(t) \/ FrontSteps(t)
    \/ WaitLock(t) \/ WaitPred(t) \/ WaitRelock(t) \/ TimedWaitSteps(t)
    \/ UnlinkSteps(t) \/ RemoveSteps(t) \/ SizeSteps(t)

\* Thread 1 makes one call of push, front, remove or size; the other
\* threads make any calls.
FairCall(t) ==
    IF t = 1
    THEN /\ res[t].op = "none"
         /\ \E cl \in {k \in Calls : k.op # "pop"} : Begin(t, cl)
    ELSE Call(t)

NextFair == \E t \in Threads : FairCall(t) \/ Proceed(t) \/ WaitSpurious(t)

\* A fair scheduler: a thread that can take a step again and again takes
\* one, so a thread waiting in lock() gets the mutex if the mutex keeps
\* being released.
SpecFair ==
    InitTQ /\ [][NextFair]_vars /\ \A t \in Threads : SF_vars(Proceed(t))

(***************************************************************************)
(* Scenario: thread 1 calls pop with timeout_us < 0 once, the other        *)
(* threads push; nobody else pops or removes.                               *)
(***************************************************************************)
WakeCalls(t) ==
    IF t = 1 THEN {[op |-> "pop", c |-> nullptr, timeout |-> -1]}
    ELSE [op : {"push"}, c : TItems, timeout : {0}]

WakeCall(t) ==
    /\ t = 1 => res[1].op = "none"
    /\ \E cl \in WakeCalls(t) : Begin(t, cl)

\* The steps a thread takes once its call has started.  A spurious wakeup
\* is possible but nothing guarantees it, so it is not among them.
Run(t) ==
    \/ PushSteps(t)
    \/ WaitLock(t) \/ WaitPred(t) \/ WaitRelock(t)
    \/ UnlinkSteps(t)

NextWake == \E t \in Threads : WakeCall(t) \/ Run(t) \/ WaitSpurious(t)

\* The queue is empty when the threads start.
InitWake == InitTQ /\ tq = TimeoutQueue(TCapacity)

\* The scheduler lets every thread that can take a step take one.
SpecWake ==
    InitWake /\ [][NextWake]_vars /\ \A t \in Threads : WF_vars(Run(t))

\* The caller makes call op(arg): r is what the UniqueIdQueue answers.  The
\* TimeoutQueue gets the same call (remove(T&) for remove(uint16_t), which it
\* does not have), pop with the default timeout_us = 0.
Done(op, arg, r) ==
    LET cl == [op |-> IF op = "removeId" THEN "remove" ELSE op, c |-> arg,
               timeout |-> 0]
        tr == seq_call(tq, cl, outp[1])
    IN
    /\ uq'  = r.q
    /\ out' = r.out
    /\ ret' = [op |-> op, arg |-> arg, status |-> r.status]
    /\ pre' = [q |-> uq, out |-> out, hist |-> hist, tq |-> tq,
               outp |-> outp[1],
               last |-> IF ret.status = Ok /\ ret.op = "push"
                        THEN [op |-> "push", c |-> ret.arg, q |-> pre.q,
                              tq |-> pre.tq]
                        ELSE IF ret.status = Ok
                                /\ ret.op \in {"pop", "remove", "removeId"}
                        THEN [op |-> ret.op,
                              c |-> Taken(ret.op, pre.q, GetId(ret.arg)),
                              q |-> pre.q, tq |-> pre.tq]
                        ELSE NoLast]
    /\ fresh' = (fresh /\ ~(r.status = Ok /\ op \in {"pop", "remove", "removeId"}))
    /\ hist' = IF r.status # Ok THEN hist
               ELSE CASE op = "push"   -> Append(hist, arg)
                      [] op = "pop"    -> Without(hist, r.out)
                      [] op \in {"remove", "removeId"} ->
                             Without(hist, Taken(op, uq, GetId(arg)))
                      [] OTHER -> hist
    /\ tq' = tr.q
    /\ lin' = tr.q
    /\ outp' = [outp EXCEPT ![1] = tr.out]
    /\ res' = [res EXCEPT ![1] = [op |-> cl.op, c |-> arg, timeout |-> 0,
                                  status |-> tr.status, val |-> tr.val]]
    /\ exp' = [exp EXCEPT ![1] = [status |-> tr.status, out |-> tr.out,
                                  val |-> tr.val]]
    /\ UNCHANGED <<mutex_, semaphore_, pc, call, nloc, ncalls, slept, svars>>

Init ==
    /\ uq \in {UniqueIdQueue(c) : c \in 0..Capacity}
    /\ out = nullptr
    /\ ret = NoCall
    /\ tq = TimeoutQueue(uq.capacity_)
    /\ pre = [q |-> uq, out |-> nullptr, hist |-> <<>>, tq |-> tq,
              outp |-> nullptr, last |-> NoLast]
    /\ hist = <<>>
    /\ fresh = TRUE
    /\ TInit
    /\ SInit

Push     == \E c \in Items : Done("push", c, push(uq, c, out))
Front    == Done("front", nullptr, front(uq, out))
Pop      == Done("pop", nullptr, pop(uq, out))
Remove   == \E c \in Items : Done("remove", c, remove(uq, c, out))
RemoveId == \E id \in Ids : Done("removeId", <<id, 0>>, removeId(uq, id, out))

Next == Push \/ Front \/ Pop \/ Remove \/ RemoveId

\* One caller of a UniqueIdQueue and of a TimeoutQueue.
Spec == Init /\ [][Next]_vars

(***************************************************************************)
(* One caller of a TimeoutQueue constructed with one of the largest        *)
(* capacities a uint16_t holds, pushing and removing the largest           *)
(* identities a uint16_t holds.                                            *)
(***************************************************************************)
LargeCapacities == {kNil - 1, kNil}
LargeIds == {0, 1, kNil - 2, kNil - 1, kNil}
LargeItems == {<<i, 0>> : i \in LargeIds}

\* TimeoutQueue(capacity) without the slots no identity of LargeIds
\* addresses: they keep their initial value.
LargeQueue(capacity) ==
    [TimeoutQueue(0) EXCEPT
        !.capacity_ = capacity,
        !.data_ = [i \in {j \in LargeIds : j < capacity} |-> Node(kNil)]]

InitLarge ==
    /\ uq = UniqueIdQueue(Capacity)
    /\ out = nullptr
    /\ ret = NoCall
    /\ tq \in {LargeQueue(c) : c \in LargeCapacities}
    /\ pre = [q |-> uq, out |-> nullptr, hist |-> <<>>, tq |-> tq,
              outp |-> nullptr, last |-> NoLast]
    /\ hist = <<>>
    /\ fresh = TRUE
    /\ TInit
    /\ SInit

PushLarge   == \E c \in LargeItems : Done("push", c, push(uq, c, out))
RemoveLarge == \E c \in LargeItems : Done("remove", c, remove(uq, c, out))

NextLarge == PushLarge \/ Pop \/ RemoveLarge

SpecLarge == InitLarge /\ [][NextLarge]_vars

(***************************************************************************)
(* One caller of a UniqueIdQueue<T, Capacity> and of a TimeoutQueue, both  *)
(* constructed with a capacity argument that may exceed Capacity.  With    *)
(* capacity_ > Capacity the identities Capacity..capacity_-1 pass IdValid, *)
(* and data_[id] is then the memory behind the array: the model gives the  *)
(* store one more slot for it, holding what that memory holds.  A call     *)
(* that has accessed it has undefined behaviour; no call is modelled       *)
(* after it.                                                               *)
(***************************************************************************)
AnyCapacities == 0..(Capacity + 1)

\* What the memory behind data_ holds after construction: a null or a
\* non-null pointer where Node::data would be.
Behind == {Node(kNilU), [Node(kNilU) EXCEPT !.data = <<0, 1>>]}

AnyQueue(capacity, behind) ==
    IF capacity <= Capacity THEN UniqueIdQueue(capacity)
    ELSE [UniqueIdQueue(capacity) EXCEPT
             !.data_ = [i \in 0..(capacity - 1) |->
                           IF i < Capacity THEN Node(kNilU) ELSE behind]]

InitAny ==
    /\ uq \in {AnyQueue(c, b) : c \in AnyCapacities, b \in Behind}
    /\ out = nullptr
    /\ ret = NoCall
    /\ tq = TimeoutQueue(uq.capacity_)
    /\ pre = [q |-> uq, out |-> nullptr, hist |-> <<>>, tq |-> tq,
              outp |-> nullptr, last |-> NoLast]
    /\ hist = <<>>
    /\ fresh = TRUE
    /\ TInit
    /\ SInit

\* The last call stayed inside data_.
Defined == indices(ret.op, pre.q, ret.arg) \subseteq 0..(Capacity - 1)

NextAny == Defined /\ Next

SpecAny == InitAny /\ [][NextAny]_vars

(***************************************************************************)
(* One caller of a StaticQueue<int, N>, N in 1..Capacity, making push and  *)
(* pop calls in any order.                                                 *)
(***************************************************************************)
Wrapped(before, after, n) ==
    IF after < before /\ n < MaxWraps THEN n + 1 ELSE n

StaticDone(op, arg, r, o) ==
    /\ sq' = r.q
    /\ sout' = o
    /\ sret' = [op |-> op, arg |-> arg, status |-> r.status]
    /\ spre' = [q |-> sq, pending |-> pending]
    /\ pending' = IF r.status # Ok THEN pending
                  ELSE IF op = "push" THEN Append(pending, arg)
                  ELSE Tail(pending)
    /\ wraps' = [head |-> Wrapped(sq.head_, r.q.head_, wraps.head),
                 tail |-> Wrapped(sq.tail_, r.q.tail_, wraps.tail)]
    /\ UNCHANGED <<uvars, tvars>>

StaticPush ==
    \E element \in Elements :
        StaticDone("push", element, static_push(sq, element), sout)

StaticPop ==
    LET r == static_pop(sq, sout) IN StaticDone("pop", 0, r, r.out)

InitStatic ==
    /\ uq = UniqueIdQueue(Capacity) /\ out = nullptr /\ ret = NoCall
    /\ hist = <<>> /\ fresh = TRUE
    /\ tq = TimeoutQueue(TCapacity)
    /\ pre = [q |-> uq, out |-> nullptr, hist |-> <<>>, tq |-> tq,
              outp |-> nullptr, last |-> NoLast]
    /\ TInit
    /\ \E N \in 1..Capacity :
           sq \in {StaticQueue(N, g) : g \in [0..(N - 1) -> Elements \cup {0}]}
    /\ sout = 0
    /\ sret = NoCall
    /\ spre = [q |-> sq, pending |-> <<>>]
    /\ pending = <<>>
    /\ wraps = [head |-> 0, tail |-> 0]

NextStatic == StaticPush \/ StaticPop

SpecStatic == InitStatic /\ [][NextStatic]_vars

\* Thread 1 pops, with any timeout_us, the other threads push; nobody else
\* pops and nobody removes.
PopCalls(t) ==
    IF t = 1 THEN [op : {"pop"}, c : {nullptr}, timeout : Timeouts]
    ELSE [op : {"push"}, c : TItems, timeout : {0}]

PopCall(t) == \E cl \in PopCalls(t) : Begin(t, cl)

NextPop ==
    \E t \in Threads :
        \/ PopCall(t)
        \/ PushSteps(t) \/ WaitSteps(t) \/ TimedWaitSteps(t) \/ UnlinkSteps(t)

SpecPop == InitTQ /\ [][NextPop]_vars

(***************************************************************************)
(* Scenario ConcurrentPush: the queue is empty and every thread pushes at  *)
(* most one container; nobody pops or removes.                             *)
(***************************************************************************)
ConcurrentPush(t) ==
    /\ res[t].op = "none"
    /\ \E c \in TItems : Begin(t, [op |-> "push", c |-> c, timeout |-> 0])

NextPush == \E t \in Threads : ConcurrentPush(t) \/ PushSteps(t)

SpecPush == InitWake /\ [][NextPush]_vars

(***************************************************************************)
(* Scenario ConcurrentPop: the queue holds one item per thread and every   *)
(* thread calls pop(out) once (timeout_us = 0); nobody pushes.             *)
(***************************************************************************)
ConcurrentPop(t) ==
    /\ res[t].op = "none"
    /\ Start(t, [op |-> "pop", c |-> nullptr, timeout |-> 0])

NextConcPop ==
    \E t \in Threads :
        ConcurrentPop(t) \/ WaitLock(t) \/ WaitPred(t) \/ UnlinkSteps(t)

InitConcPop == InitTQ /\ tq = Prefilled(NThreads)

SpecConcPop == InitConcPop /\ [][NextConcPop]_vars

(***************************************************************************)
(* Scenario ConcurrentPushPop: the queue is empty; thread 1 calls          *)
(* pop(out) once (timeout_us = 0), every other thread pushes two           *)
(* containers of its own, as far as their identities are below capacity_.  *)
(***************************************************************************)
\* uint16_t id = t * 2 + i, for the i-th push of pushing thread t
PushPopId(t, i) == (t - 2) * 2 + i

\* The number of pushes thread t has made.
PushesMade(t) ==
    IF res[t].op = "none" THEN 0 ELSE GetId(res[t].c) - PushPopId(t, 0) + 1

ConcurrentPushPop(t) ==
    IF t = 1
    THEN /\ res[t].op = "none"
         /\ Start(t, [op |-> "pop", c |-> nullptr, timeout |-> 0])
    ELSE /\ PushesMade(t) < 2
         /\ PushPopId(t, PushesMade(t)) < TCapacity
         /\ Start(t, [op |-> "push", c |-> <<PushPopId(t, PushesMade(t)), 0>>,
                      timeout |-> 0])

NextPushPop ==
    \E t \in Threads :
        \/ ConcurrentPushPop(t)
        \/ PushSteps(t) \/ WaitLock(t) \/ WaitPred(t) \/ UnlinkSteps(t)

SpecPushPop == InitWake /\ [][NextPushPop]_vars

(***************************************************************************)
(* Scenario ConcurrentPushPopRemove: the queue has room for two items per  *)
(* thread and holds one item per thread; every thread pushes a container   *)
(* of its own, calls pop(out) (timeout_us = 0) and removes its container.  *)
(***************************************************************************)
\* The queue of the given capacity after pushes of the identities 0..k-1.
RECURSIVE PrefilledOf(_, _)
PrefilledOf(capacity, k) ==
    IF k = 0 THEN TimeoutQueue(capacity)
    ELSE seq_push(PrefilledOf(capacity, k - 1), <<k - 1, 0>>, nullptr).q

\* uint16_t id = t + 4: the container of thread t
OwnContainer(t) == <<NThreads + t - 1, 0>>

ConcurrentPushPopRemove(t) ==
    \/ /\ res[t].op = "none"
       /\ Start(t, [op |-> "push", c |-> OwnContainer(t), timeout |-> 0])
    \/ /\ res[t].op = "push"
       /\ Start(t, [op |-> "pop", c |-> nullptr, timeout |-> 0])
    \/ /\ res[t].op = "pop"
       /\ Start(t, [op |-> "remove", c |-> OwnContainer(t), timeout |-> 0])

NextPushPopRemove ==
    \E t \in Threads :
        \/ ConcurrentPushPopRemove(t)
        \/ PushSteps(t) \/ WaitLock(t) \/ WaitPred(t) \/ UnlinkSteps(t)
        \/ RemoveSteps(t)

InitPushPopRemove ==
    /\ uq = UniqueIdQueue(Capacity) /\ out = nullptr /\ ret = NoCall
    /\ hist = <<>> /\ fresh = TRUE
    /\ tq = PrefilledOf(2 * NThreads, NThreads)
    /\ pre = [q |-> uq, out |-> nullptr, hist |-> <<>>, tq |-> tq,
              outp |-> nullptr, last |-> NoLast]
    /\ TInit
    /\ SInit

SpecPushPopRemove == InitPushPopRemove /\ [][NextPushPopRemove]_vars

(***************************************************************************)
(* Scenario: every thread of Threads calls pop once with a timeout other   *)
(* than 0, the thread Pusher pushes one container.                         *)
(***************************************************************************)
NotifyCall(t) ==
    /\ res[t].op = "none"
    /\ IF t = Pusher
       THEN \E c \in TItems :
               Start(t, [op |-> "push", c |-> c, timeout |-> 0])
       ELSE \E d \in Timeouts \ {0} :
               Start(t, [op |-> "pop", c |-> nullptr, timeout |-> d])

NextNotify ==
    \E t \in AllThreads :
        \/ NotifyCall(t)
        \/ PushSteps(t) \/ WaitSteps(t) \/ TimedWaitSteps(t) \/ UnlinkSteps(t)

SpecNotify == InitTQ /\ [][NextNotify]_vars

(***************************************************************************)
(* Scenario: every thread of Threads calls pop with timeout_us < 0 once on *)
(* the empty queue; once all of them have been suspended in the condition  *)
(* variable, Pusher pushes as many containers as there are waiters, with   *)
(* the identities 0, 1, ...  Nobody else pops or removes.  The scheduler   *)
(* lets every thread that can take a step infinitely often take one.       *)
(***************************************************************************)
WaitersCall(t) ==
    IF t = Pusher
    THEN /\ ncalls \in NThreads..(2 * NThreads - 1)
         /\ \A w \in Threads : slept[w]
         /\ Start(t, [op |-> "push", c |-> <<ncalls - NThreads, 0>>,
                      timeout |-> 0])
    ELSE /\ res[t].op = "none"
         /\ Start(t, [op |-> "pop", c |-> nullptr, timeout |-> -1])

NextWaiters ==
    \E t \in AllThreads : WaitersCall(t) \/ Run(t) \/ WaitSpurious(t)

InitWaiters == InitTQ /\ tq = TimeoutQueue(NThreads)

SpecWaiters ==
    /\ InitWaiters /\ [][NextWaiters]_vars
    /\ \A t \in AllThreads : WF_vars(WaitersCall(t)) /\ SF_vars(Run(t))

(***************************************************************************)
(* Properties of the two stores under one caller (specification Spec):     *)
(* uq is the UniqueIdQueue, tq the TimeoutQueue given the same calls.      *)
(***************************************************************************)
Range(s) == {s[i] : i \in DOMAIN s}

\* The slots visited when following next from slot i, at most n of them.
RECURSIVE Walk(_, _, _)
Walk(q, i, n) ==
    IF n = 0 \/ i \notin DOMAIN q.data_ THEN <<>>
    ELSE <<i>> \o Walk(q, q.data_[i].next, n - 1)

Chain(q) == Walk(q, q.head_, Capacity + 1)
Occupied(q) == {i \in DOMAIN q.data_ : NodeBool(q.data_[i])}

\* C1: in every reachable state a slot holds a non-null reference iff it is
\* visited when following next from head; that traversal visits exactly
\* size_ slots, ends at tail_ and visits no slot twice.
ChainMatchesOccupancy(q, nil) ==
    LET w == Chain(q) IN
    /\ Range(w) = Occupied(q)
    /\ Len(w) = q.size_
    /\ Cardinality(Range(w)) = Len(w)
    /\ IF w = <<>> THEN q.tail_ = nil /\ q.head_ = nil
       ELSE w[Len(w)] = q.tail_

C1_ChainMatchesOccupancy ==
    ChainMatchesOccupancy(uq, kNilU) /\ ChainMatchesOccupancy(tq, kNil)

\* Witness of C1: an interior slot has just been removed from a chain of three.
C1_Witness ==
    /\ ret.op \in {"remove", "removeId"} /\ ret.status = Ok
    /\ pre.q.size_ = 3
    /\ GetId(ret.arg) \notin {pre.q.head_, pre.q.tail_}
    /\ uq.size_ = 2
    /\ res[1].status = Ok /\ pre.tq.size_ = 3 /\ tq.size_ = 2

Linked(q, c) == IdValid(q, GetId(c)) /\ NodeBool(q.data_[GetId(c)])
LinkedT(q, c) == GetId(c) < q.capacity_ /\ NodeBool(q.data_[GetId(c)])

\* C3 as claimed: whenever the identity of the pushed item is linked, full
\* store included, push returns Duplicate and leaves size unchanged.
C3_DuplicateEvenWhenFull ==
    /\ (ret.op = "push" /\ Linked(pre.q, ret.arg)) =>
          (ret.status = Duplicate /\ size(uq) = size(pre.q))
    /\ (res[1].op = "push" /\ LinkedT(pre.tq, res[1].c)) =>
          (res[1].status = Duplicate /\ size_impl(tq) = size_impl(pre.tq))

\* C3 amended: when the identity of the pushed item is linked, push returns
\* Duplicate if the store is not full and Full if it is full; size is
\* unchanged in both cases.
C3_DuplicateUnlessFull ==
    /\ (ret.op = "push" /\ Linked(pre.q, ret.arg)) =>
          /\ ret.status = (IF full(pre.q) THEN Full ELSE Duplicate)
          /\ size(uq) = size(pre.q)
    /\ (res[1].op = "push" /\ LinkedT(pre.tq, res[1].c)) =>
          /\ res[1].status = (IF full_impl(pre.tq) THEN Full ELSE Duplicate)
          /\ size_impl(tq) = size_impl(pre.tq)

\* Witness of C3: a push of a second object with a linked identity into a
\* store that is not full, answered Duplicate.
C3_Witness ==
    /\ ret.op = "push" /\ ret.status = Duplicate
    /\ Linked(pre.q, ret.arg)
    /\ pre.q.data_[GetId(ret.arg)].data # ret.arg
    /\ ~full(pre.q)
    /\ res[1].status = Duplicate /\ LinkedT(pre.tq, res[1].c)

\* C9: a call that returns a status other than Ok leaves head, tail, size
\* and every slot as they were and does not write its output argument.
C9_FailureChangesNothing ==
    /\ (ret.op # "none" /\ ret.status # Ok) => (uq = pre.q /\ out = pre.out)
    /\ (res[1].op # "none" /\ res[1].status # Ok) =>
          (tq = pre.tq /\ outp[1] = pre.outp)

\* Witness of C9: a failed front/pop with an output pointer that an earlier
\* call had set, on a store of capacity >= 1.
C9_Witness ==
    /\ ret.op \in {"front", "pop"} /\ ret.status = Empty
    /\ out # nullptr /\ uq.capacity_ > 0
    /\ res[1].status = Empty /\ outp[1] # nullptr

\* C10: after capacity_ pushes that returned Ok, with no Ok pop or remove
\* since construction, full() is true and every further push returns Full.
C10_FullAfterCapacityPushes ==
    /\ (fresh /\ Len(hist) = uq.capacity_) => (full(uq) /\ full_impl(tq))
    /\ (fresh /\ Len(pre.hist) = uq.capacity_ /\ ret.op = "push") =>
           (ret.status = Full /\ res[1].status = Full)

\* Witness of C10: a push of a free, valid identity... there is none once
\* the store is full, so the witness is a push of an out-of-range identity
\* answered Full right after Capacity successful pushes.
C10_Witness ==
    /\ fresh /\ Len(pre.hist) = uq.capacity_ /\ uq.capacity_ = Capacity
    /\ ret.op = "push" /\ ret.status = Full
    /\ GetId(ret.arg) >= uq.capacity_

\* The items that pop returns when it is called until it returns Empty (at
\* most n calls; the walk also ends if head_ is not a slot of the array).
RECURSIVE Drain(_, _)
Drain(q, n) ==
    IF n = 0 \/ empty(q) \/ q.head_ \notin DOMAIN q.data_ THEN <<>>
    ELSE LET r == pop(q, nullptr) IN <<r.out>> \o Drain(r.q, n - 1)

\* The same for the TimeoutQueue with one caller.
RECURSIVE DrainT(_, _)
DrainT(q, n) ==
    IF n = 0 \/ empty_impl(q) \/ q.head_ \notin DOMAIN q.data_ THEN <<>>
    ELSE LET r == seq_pop(q, nullptr) IN <<r.out>> \o DrainT(r.q, n - 1)

\* C12: after remove(r) returns Ok, popping until Empty returns the other
\* previously linked items in their insertion order (pre.hist), r absent:
\* the order of what remains is that of the store before the remove.
C12_RemoveKeepsOrder ==
    /\ (ret.op \in {"remove", "removeId"} /\ ret.status = Ok) =>
          LET r == pre.q.data_[GetId(ret.arg)].data IN
          /\ Drain(pre.q, Capacity + 1) = pre.hist
          /\ Drain(uq, Capacity + 1) = Without(pre.hist, r)
          /\ Len(Drain(uq, Capacity + 1)) = Len(pre.hist) - 1
    /\ (res[1].op = "remove" /\ res[1].status = Ok) =>
          LET r == pre.tq.data_[GetId(res[1].c)].data IN
          /\ DrainT(pre.tq, Capacity + 1) = pre.hist
          /\ DrainT(tq, Capacity + 1) = Without(pre.hist, r)
          /\ Len(DrainT(tq, Capacity + 1)) = Len(pre.hist) - 1

\* Witness of C12: the second of three linked items has been removed by
\* item, and popping until Empty gives the first and then the third.
C12_Witness ==
    /\ ret.op = "remove" /\ ret.status = Ok /\ res[1].status = Ok
    /\ Len(pre.hist) = 3 /\ GetId(ret.arg) = GetId(pre.hist[2])
    /\ Drain(uq, Capacity + 1) = <<pre.hist[1], pre.hist[3]>>
    /\ DrainT(tq, Capacity + 1) = <<pre.hist[1], pre.hist[3]>>

\* C13: size equals the number of slots with a non-null reference, and prev
\* is the inverse of next along the chain: a linked slot's successor points
\* back to it, its predecessor points forward to it, the slot without
\* predecessor is head_ and the slot without successor is tail_; a free
\* slot has no links, and an empty store has head_ = tail_ = nil.
LinksConsistent(q, nil) ==
    /\ q.size_ = Cardinality(Occupied(q))
    /\ \A s \in Occupied(q) :
          LET n == q.data_[s] IN
          /\ n.next # nil => (n.next \in Occupied(q) /\ q.data_[n.next].prev = s)
          /\ n.prev # nil => (n.prev \in Occupied(q) /\ q.data_[n.prev].next = s)
          /\ n.prev = nil <=> q.head_ = s
          /\ n.next = nil <=> q.tail_ = s
    /\ \A s \in DOMAIN q.data_ \ Occupied(q) :
          q.data_[s].prev = nil /\ q.data_[s].next = nil
    /\ Occupied(q) = {} => (q.head_ = nil /\ q.tail_ = nil)
    /\ Len(Chain(q)) = q.size_

C13_LinksConsistent ==
    LinksConsistent(uq, kNilU) /\ LinksConsistent(tq, kNil)

\* Witness of C13: after an earlier pop or remove, the tail of two linked
\* items has been removed; the item left is both head and tail.
C13_Witness ==
    /\ ret.op \in {"remove", "removeId"} /\ ret.status = Ok
    /\ Len(pre.hist) = 2 /\ GetId(ret.arg) = pre.q.tail_
    /\ pre.q.data_[pre.q.head_].prev = kNilU
    /\ ~fresh /\ uq.size_ = 1 /\ uq.head_ = uq.tail_
    /\ tq.size_ = 1 /\ tq.head_ = tq.tail_ /\ tq.head_ # kNil

\* C33: in every reachable state of the store 0 <= size <= capacity; head
\* is nil iff tail is nil iff size is 0; every free slot has prev and next
\* nil and is referenced neither by head, nor by tail, nor by the prev or
\* next of a linked slot.
StoreInvariant(q, nil) ==
    /\ q.size_ \in 0..q.capacity_
    /\ (q.head_ = nil) <=> (q.tail_ = nil)
    /\ (q.tail_ = nil) <=> (q.size_ = 0)
    /\ \A s \in DOMAIN q.data_ :
          ~NodeBool(q.data_[s]) =>
              /\ q.data_[s].prev = nil /\ q.data_[s].next = nil
              /\ q.head_ # s /\ q.tail_ # s
              /\ \A l \in DOMAIN q.data_ :
                    NodeBool(q.data_[l]) =>
                        q.data_[l].prev # s /\ q.data_[l].next # s

C33_StoreInvariant ==
    StoreInvariant(uq, kNilU) /\ StoreInvariant(tq, kNil)

\* Witness of C33: a slot that had a predecessor and a successor has just
\* been removed from a full store; it is free, and two slots stay linked.
C33_Witness ==
    /\ ret.op \in {"remove", "removeId"} /\ ret.status = Ok
    /\ pre.q.size_ = pre.q.capacity_
    /\ pre.q.data_[GetId(ret.arg)].prev # kNilU
    /\ pre.q.data_[GetId(ret.arg)].next # kNilU
    /\ pre.tq.data_[GetId(ret.arg)].prev # kNil
    /\ pre.tq.data_[GetId(ret.arg)].next # kNil
    /\ ~NodeBool(uq.data_[GetId(ret.arg)])
    /\ ~NodeBool(tq.data_[GetId(ret.arg)])
    /\ uq.size_ = 2 /\ tq.size_ = 2

\* The status the claim C14 gives for a remove of identity id on a store
\* with the given emptiness, capacity and occupancy of the slot.
RemoveStatus(isEmpty, capacity, id, occupied) ==
    IF isEmpty THEN Empty
    ELSE IF ~(id < capacity) THEN InvalidId
    ELSE IF ~occupied THEN NotFound
    ELSE Ok

SlotOccupied(q, id) == id \in DOMAIN q.data_ /\ NodeBool(q.data_[id])

\* C14 as claimed: remove, by item or by identity, returns Empty on an empty
\* store, else InvalidId for an identity out of range, else NotFound for a
\* free slot, else Ok with size decremented by one.
C14_RemoveEmptyFirst ==
    /\ ret.op \in {"remove", "removeId"} =>
          /\ ret.status = RemoveStatus(empty(pre.q), pre.q.capacity_,
                                       GetId(ret.arg),
                                       SlotOccupied(pre.q, GetId(ret.arg)))
          /\ ret.status = Ok => size(uq) = size(pre.q) - 1
    /\ res[1].op = "remove" =>
          /\ res[1].status = RemoveStatus(empty_impl(pre.tq), pre.tq.capacity_,
                                          GetId(res[1].c),
                                          SlotOccupied(pre.tq, GetId(res[1].c)))
          /\ res[1].status = Ok => size_impl(tq) = size_impl(pre.tq) - 1

\* C14 amended: remove by item behaves as claimed; remove by identity never
\* returns Empty: it returns InvalidId for an identity out of range and
\* NotFound for a free slot whether or not the store is empty.
C14_RemoveByIdentitySkipsEmpty ==
    /\ ret.op \in {"remove", "removeId"} =>
          /\ ret.status = RemoveStatus(ret.op = "remove" /\ empty(pre.q),
                                       pre.q.capacity_, GetId(ret.arg),
                                       SlotOccupied(pre.q, GetId(ret.arg)))
          /\ ret.status = Ok => size(uq) = size(pre.q) - 1
    /\ res[1].op = "remove" =>
          /\ res[1].status = RemoveStatus(empty_impl(pre.tq), pre.tq.capacity_,
                                          GetId(res[1].c),
                                          SlotOccupied(pre.tq, GetId(res[1].c)))
          /\ res[1].status = Ok => size_impl(tq) = size_impl(pre.tq) - 1

\* Witness of C14: a store emptied by earlier calls; remove by identity of
\* an identity out of range is answered InvalidId while the TimeoutQueue,
\* which removes by item, answers Empty.
C14_Witness ==
    /\ ret.op = "removeId" /\ ~fresh /\ empty(pre.q)
    /\ ~IdValid(pre.q, GetId(ret.arg))
    /\ ret.status = InvalidId /\ res[1].status = Empty

\* C17 as claimed: a pop issued immediately after a push of x that returned
\* Ok returns x and leaves the store equal to its state before the push.
C17_PushPopRoundTrip ==
    (ret.op = "pop" /\ pre.last.op = "push") =>
        /\ ret.status = Ok /\ out = pre.last.c /\ uq = pre.last.q
        /\ res[1].status = Ok /\ outp[1] = pre.last.c /\ tq = pre.last.tq

\* C17 amended: the pop returns Ok; if the store was empty before the push
\* it returns x and the store is again as before the push; otherwise it
\* returns the item that was at the head before the push, and x stays
\* linked.
C17_PushPopRoundTripOnEmpty ==
    (ret.op = "pop" /\ pre.last.op = "push") =>
        /\ ret.status = Ok /\ res[1].status = Ok
        /\ IF empty(pre.last.q)
           THEN out = pre.last.c /\ uq = pre.last.q
           ELSE /\ out = pre.last.q.data_[pre.last.q.head_].data
                /\ out # pre.last.c
                /\ uq.data_[GetId(pre.last.c)].data = pre.last.c
        /\ IF empty_impl(pre.last.tq)
           THEN outp[1] = pre.last.c /\ tq = pre.last.tq
           ELSE /\ outp[1] = pre.last.tq.data_[pre.last.tq.head_].data
                /\ outp[1] # pre.last.c
                /\ tq.data_[GetId(pre.last.c)].data = pre.last.c

\* Witness of C17: a store that has been used and emptied; x is pushed and
\* popped at once, both queues return x and are as before the push.
C17_Witness ==
    /\ ret.op = "pop" /\ pre.last.op = "push" /\ pre.out # nullptr
    /\ empty(pre.last.q) /\ pre.hist = <<pre.last.c>>
    /\ out = pre.last.c /\ outp[1] = pre.last.c
    /\ uq = pre.last.q /\ tq = pre.last.tq

\* C18: a push that returns Ok links its item at the tail, also when its
\* identity was linked before and has been removed or popped: popping until
\* Empty returns every item that was linked at the time of the push
\* (pre.hist, in order) and then the pushed item.
C18_RepushLandsAtTail ==
    (ret.op = "push" /\ ret.status = Ok) =>
        /\ uq.tail_ = GetId(ret.arg)
        /\ Drain(uq, Capacity + 1) = Append(pre.hist, ret.arg)
        /\ res[1].status = Ok
        /\ tq.tail_ = GetId(ret.arg)
        /\ DrainT(tq, Capacity + 1) = Append(pre.hist, ret.arg)

\* Witness of C18: the identity at the head of three linked items is
\* removed and pushed again at once; it comes out after the two others.
C18_Witness ==
    /\ ret.op = "push" /\ ret.status = Ok /\ res[1].status = Ok
    /\ pre.last.op \in {"pop", "remove", "removeId"}
    /\ GetId(pre.last.c) = GetId(ret.arg)
    /\ pre.last.q.head_ = GetId(ret.arg) /\ pre.last.q.size_ = 3
    /\ Len(pre.hist) = 2
    /\ Drain(uq, Capacity + 1) = pre.hist \o <<ret.arg>>
    /\ DrainT(tq, Capacity + 1) = pre.hist \o <<ret.arg>>

\* The slots that are free in store p and occupied in store q.
Filled(p, q) == Occupied(q) \ Occupied(p)

\* C19: in every step, the slots that go from free to occupied are exactly
\* the slot of the identity pushed, and only if the push returns Ok; the
\* slots that go from occupied to free are exactly the head slot of a pop
\* that returns Ok or the slot of the identity of a remove that returns Ok;
\* front and every failing call change the occupancy of no slot.
C19_OccupancyTransitions ==
    /\ Filled(pre.q, uq) =
          IF ret.op = "push" /\ ret.status = Ok THEN {GetId(ret.arg)} ELSE {}
    /\ Filled(uq, pre.q) =
          IF ret.op = "pop" /\ ret.status = Ok THEN {pre.q.head_}
          ELSE IF ret.op \in {"remove", "removeId"} /\ ret.status = Ok
               THEN {GetId(ret.arg)}
          ELSE {}
    /\ Filled(pre.tq, tq) =
          IF res[1].op = "push" /\ res[1].status = Ok THEN {GetId(res[1].c)}
          ELSE {}
    /\ Filled(tq, pre.tq) =
          IF res[1].op = "pop" /\ res[1].status = Ok THEN {pre.tq.head_}
          ELSE IF res[1].op = "remove" /\ res[1].status = Ok
               THEN {GetId(res[1].c)}
          ELSE {}

\* Witness of C19: a front that returns Ok on a full store, after which
\* every slot is still occupied.
C19_Witness ==
    /\ ret.op = "front" /\ ret.status = Ok /\ res[1].status = Ok
    /\ full(pre.q) /\ pre.q.capacity_ = Capacity
    /\ Occupied(uq) = 0..(Capacity - 1) /\ Occupied(tq) = 0..(Capacity - 1)

\* The identity of c is capacity_ or capacity_ + 1.
Boundary(q, c) == GetId(c) \in {q.capacity_, q.capacity_ + 1}

StoreAccess ==
    {"push_full", "push_node", "push_fill", "link_1", "link_2", "link_3",
     "push_size", "front_check", "front_read", "wait_pred", "wait_last",
     "pop_read", "pop_bind", "unlink_1", "unlink_2", "unlink_3", "dec_size",
     "remove_check", "remove_node", "size_read"}

\* The statements that write them.
StoreMutation ==
    {"push_fill", "link_1", "link_2", "link_3", "push_size",
     "unlink_1", "unlink_2", "unlink_3", "dec_size"}

\* C4: every read or write of data_, head_, tail_ and size_ happens while
\* the calling thread holds mutex_, and no two threads are inside a store
\* mutation at the same time.
C4_AccessUnderLock ==
    /\ \A t \in Threads : pc[t] \in StoreAccess => mutex_ = t
    /\ \A t, u \in Threads :
          (t # u /\ pc[t] \in StoreMutation) => pc[u] \notin StoreMutation

\* C5: no call returns while it holds mutex_, and no call unlocks mutex_
\* when the calling thread does not hold it.
C5_LockDiscipline ==
    \A t \in Threads :
        /\ pc[t] = "idle" => mutex_ # t
        /\ pc[t] \in {"push_unlock", "front_unlock", "last_unlock"} =>
              mutex_ = t

\* C6: when pop reads data_[head_] and unlinks it the store is non-empty
\* (size_ > 0 and head_ # kNil); size_ never goes below 0 and kNil is never
\* used as an index.
C6_PopOnNonEmpty ==
    /\ \A t \in Threads :
          pc[t] \in {"pop_read", "pop_bind"} =>
              (tq.size_ > 0 /\ tq.head_ # kNil)
    /\ \A t \in Threads :
          pc[t] \in {"unlink_1", "unlink_2", "unlink_3"} => nloc[t] # kNil
    /\ tq.size_ >= 0

\* C7: the statuses, the items and the values the calls return are those of
\* the sequential run of the same calls in lock-acquisition order, and once
\* every call has returned the store equals the store of that run.
C7_Linearizable ==
    /\ \A t \in Threads :
          res[t].op # "none" =>
              /\ res[t].status = exp[t].status
              /\ res[t].val = exp[t].val
              /\ outp[t] = exp[t].out
    /\ (\A t \in Threads : pc[t] = "idle") => tq = lin

\* Wake-up on a freshly constructed queue (specification SpecWake: thread 1
\* makes one pop(timeout < 0), the others push): if thread 1 is suspended
\* and a push by another thread has put an item into the queue, thread 1's
\* pop eventually returns Ok, with the oldest pushed item (exp[1] holds the
\* oldest item of the sequential history at the time the pop takes its
\* place in it).  No notify is lost between the waiter's predicate test
\* and its registration.
C8_SuspendedPopIsWoken ==
    /\ (pc[1] \in {"wait_blocked", "wait_relock"} /\ lin.size_ > 0)
          ~> (pc[1] = "idle" /\ res[1].op = "pop" /\ res[1].status = Ok)
    /\ [](res[1].op = "pop" =>
            (res[1].status = Ok /\ exp[1].status = Ok
             /\ outp[1] = exp[1].out /\ outp[1] # nullptr))

\* Under SpecWake thread 1 blocked in the condition variable on the empty
\* queue, another thread's push returned Ok, and the pop returned Ok with
\* the pushed item.
C8_Witness ==
    /\ slept[1] /\ res[1].op = "pop" /\ res[1].status = Ok
    /\ \E t \in Threads \ {1} :
          /\ res[t].op = "push" /\ res[t].status = Ok
          /\ outp[1] = res[t].c

\* C26: for every sequence of push, front, pop, remove(item) calls by one
\* caller (specification Spec) the TimeoutQueue returns the status and the
\* output item the UniqueIdQueue of the same capacity returns for the same
\* call, and after every call size(), full() and empty() of the two agree.
\* (remove(uint16_t) exists in UniqueIdQueue only; its status is not
\* compared.)
C26_SameResultsAsUniqueIdQueue ==
    /\ (ret.op \in {"push", "front", "pop", "remove"}) =>
          /\ res[1].op = ret.op
          /\ res[1].status = ret.status
          /\ outp[1] = out
    /\ tq.capacity_ = uq.capacity_
    /\ size_impl(tq) = size(uq)
    /\ full_impl(tq) = full(uq)
    /\ empty_impl(tq) = empty(uq)

\* Witness of C26: a front that returns the head of two linked items from
\* both queues, after an item has been removed.
C26_Witness ==
    /\ ret.op = "front" /\ ret.status = Ok /\ res[1].status = Ok
    /\ size_impl(tq) = 2 /\ ~fresh
    /\ outp[1] = out /\ out # nullptr

\* C27: front returns Empty exactly when size is 0; otherwise it returns
\* the reference stored at head and changes nothing, so a front after a
\* front returns the same item.  pop returns Empty exactly when size is 0;
\* otherwise it returns the item front would have returned just before,
\* frees the head slot and no other, and decrements size by one.  Both
\* queues, one caller.
C27_FrontAndPopAtHead ==
    /\ (ret.op \in {"front", "pop"}) =>
          /\ (ret.status = Empty) <=> (size(pre.q) = 0)
          /\ (res[1].status = Empty) <=> (size_impl(pre.tq) = 0)
          /\ ret.status \in {Ok, Empty} /\ res[1].status \in {Ok, Empty}
    /\ (ret.op = "front" /\ ret.status = Ok) =>
          /\ out = pre.q.data_[pre.q.head_].data /\ out # nullptr
          /\ uq = pre.q
          /\ front(uq, out).out = out
          /\ outp[1] = pre.tq.data_[pre.tq.head_].data
          /\ tq = pre.tq
    /\ (ret.op = "pop" /\ ret.status = Ok) =>
          /\ out = front(pre.q, pre.out).out
          /\ Occupied(uq) = Occupied(pre.q) \ {pre.q.head_}
          /\ size(uq) = size(pre.q) - 1
          /\ outp[1] = seq_front(pre.tq, pre.outp).out
          /\ Occupied(tq) = Occupied(pre.tq) \ {pre.tq.head_}
          /\ size_impl(tq) = size_impl(pre.tq) - 1

\* Witness of C27: a pop that returns the head of three linked items, the
\* item the output argument already referred to (as after a front).
C27_Witness ==
    /\ ret.op = "pop" /\ ret.status = Ok /\ res[1].status = Ok
    /\ size(pre.q) = 3 /\ size(uq) = 2
    /\ out = pre.out /\ out # nullptr

\* C28: whatever uint16_t the TimeoutQueue is constructed with, 65535
\* included (specification SpecLarge), a push that returns Ok has an
\* identity other than kNil, no linked slot has the index kNil, and head_,
\* tail_, prev and next are kNil exactly where there is no link: head_ and
\* tail_ iff the queue is empty, prev at the head only, next at the tail
\* only.  In UniqueIdQueue kNil is 2^64-1 (written -1), which no uint16_t
\* identity equals.
C28_NilIsNoIdentity ==
    /\ (res[1].op = "push" /\ res[1].status = Ok) =>
          (GetId(res[1].c) # kNil /\ GetId(res[1].c) \in Occupied(tq))
    /\ kNil \notin Occupied(tq)
    /\ (tq.head_ = kNil) <=> (size_impl(tq) = 0)
    /\ (tq.tail_ = kNil) <=> (size_impl(tq) = 0)
    /\ \A i \in Occupied(tq) :
          /\ (tq.data_[i].prev = kNil) <=> (i = tq.head_)
          /\ (tq.data_[i].next = kNil) <=> (i = tq.tail_)
    /\ (ret.op = "push" /\ ret.status = Ok) => GetId(ret.arg) # kNilU
    /\ kNilU \notin Occupied(uq)

\* Witness of C28: the queue of capacity 65535 holds the identity 65534,
\* linked behind another one, and a push of identity 65535 has been
\* refused with InvalidId.
C28_Witness ==
    /\ tq.capacity_ = kNil
    /\ tq.tail_ = kNil - 1 /\ tq.head_ # tq.tail_
    /\ res[1].op = "push" /\ GetId(res[1].c) = kNil
    /\ res[1].status = InvalidId

SameIdOtherObject(d, c) == d # nullptr /\ d # c /\ GetId(d) = GetId(c)

C8_SuspendedPopReturnsPushed ==
    (res[1].op = "pop" /\ res[1].timeout < 0 /\ slept[1]) =>
        (res[1].status = Ok /\ outp[1] = exp[1].out /\ outp[1] \in TItems)

\* C15: pop with timeout_us = 0 never suspends; when it tests the predicate
\* on an empty queue it holds the mutex, it is its only test, it returns
\* Empty at once and neither the store nor the output argument changes.
\* (Without the conjunct mutex_ = t the formula holds.)
C15_PopZeroDoesNotBlock ==
    /\ [](\A t \in Threads :
            (call[t].op = "pop" /\ call[t].timeout = 0) =>
                (pc[t] \in {"wait_lock", "wait_pred", "pop_read", "pop_bind",
                            "unlink_1", "unlink_2", "unlink_3", "dec_size",
                            "last_unlock"} /\ ~slept[t]))
    /\ [][\A t \in Threads :
            (call[t].op = "pop" /\ call[t].timeout = 0 /\ pc'[t] # pc[t]) =>
                /\ pc[t] = "wait_lock" =>
                      (pc'[t] = "wait_pred" /\ tq' = tq /\ outp' = outp)
                /\ (pc[t] = "wait_pred" /\ empty_impl(tq)) =>
                      /\ mutex_ = t
                      /\ pc'[t] = "idle" /\ res'[t].op = "pop"
                      /\ res'[t].status = Empty
                      /\ tq' = tq /\ outp' = outp]_vars

Pushers == {t \in Threads : res[t].op = "push"}
PushedIds == {GetId(res[t].c) : t \in Pushers}

\* The N pushers have all returned (the other threads made no call) and
\* they pushed N distinct identities, all below capacity_.
DistinctValidPushes ==
    /\ \A t \in Threads : pc[t] = "idle"
    /\ Pushers # {}
    /\ Cardinality(PushedIds) = Cardinality(Pushers)
    /\ \A i \in PushedIds : i < tq.capacity_

\* C20: when N threads have pushed N <= capacity_ distinct valid identities
\* into an empty queue, each once and concurrently, every push returned Ok,
\* size_ is N, the queue is full iff N = capacity_, and the chain from
\* head_ holds each of the N identities exactly once (and no other slot is
\* occupied), each slot referring to the container that was pushed.
C20_ConcurrentPushesAllLand ==
    DistinctValidPushes =>
        /\ \A t \in Pushers : res[t].status = Ok
        /\ size_impl(tq) = Cardinality(Pushers)
        /\ full_impl(tq) <=> (Cardinality(Pushers) = tq.capacity_)
        /\ ChainMatchesOccupancy(tq, kNil)
        /\ Range(Chain(tq)) = PushedIds
        /\ \A t \in Pushers : tq.data_[GetId(res[t].c)].data = res[t].c

\* Witness of C20: every thread has pushed and returned, the identities
\* are distinct and valid, and the queue holds NThreads items.
C20_Witness ==
    /\ DistinctValidPushes
    /\ Pushers = Threads
    /\ size_impl(tq) = NThreads

(***************************************************************************)
(* Properties of the concurrent scenarios of test_timeoutQueue.cpp.        *)
(***************************************************************************)
\* Every thread has made its call and has returned.
AllReturned == \A t \in Threads : pc[t] = "idle" /\ res[t].op # "none"

C22_ConcurrentPushPop ==
    /\ \A t \in Threads : res[t].op = "push" => res[t].status = Ok
    /\ \A t \in Threads : res[t].op = "pop" => res[t].status = Ok
    /\ size_impl(tq) \in 0..tq.capacity_

\* C23: the queue holds one item per thread and every thread runs
\* push(own new identity), pop(out) with timeout_us = 0 and remove(own
\* identity) (specification SpecPushPopRemove): every push returns Ok,
\* every pop returns Ok, and size() is at most the capacity (a size_ below
\* 0 stands for a std::size_t near 2^64).  At most one remove per thread
\* returns Ok, there being one remove per thread.
C23_ConcurrentPushPopRemove ==
    /\ Alive
    /\ \A t \in Threads : res[t].op = "push" => res[t].status = Ok
    /\ \A t \in Threads : res[t].op = "pop" => res[t].status = Ok
    /\ size_impl(tq) \in 0..tq.capacity_

\* The pops that were suspended and have returned Ok; the pushes that have
\* inserted their item (size_++ done) and return or have returned Ok.
WokenPops ==
    {t \in AllThreads : slept[t] /\ res[t].op = "pop" /\ res[t].status = Ok}
OkPushes ==
    {t \in AllThreads :
        \/ res[t].op = "push" /\ res[t].status = Ok
        \/ call[t].op = "push" /\ pc[t] \in {"push_unlock", "push_notify"}}

\* C24: a push that returns Ok returns from its notify, which takes at most
\* one thread (one, if there is any) out of the threads suspended on the
\* condition variable; a push that returns Full, InvalidId or Duplicate
\* does not notify; and the suspended pops that return Ok are no more than
\* the pushes that inserted an item (specification SpecNotify: one push).
C24_OneWakePerOkPush ==
    /\ [][\A t \in AllThreads :
            (call[t].op = "push" /\ res'[t].op = "push") =>
                IF res'[t].status = Ok
                THEN /\ pc[t] = "push_notify"
                     /\ semaphore_' \subseteq semaphore_
                     /\ Cardinality(semaphore_ \ semaphore_') =
                            (IF semaphore_ = {} THEN 0 ELSE 1)
                ELSE /\ pc[t] \in {"push_full", "push_node"}
                     /\ semaphore_' = semaphore_]_vars
    /\ [](Cardinality(WokenPops) <= Cardinality(OkPushes))

\* C25: under fair scheduling (specification SpecFair) a call of push,
\* front, remove or size (full and empty are calls of size) that thread 1
\* has started returns, whatever the other threads do, pops that return Ok
\* or Empty and suspended pops included.
C25_CallsReturn ==
    (call[1].op \in {"push", "front", "remove", "size"})
        ~> (pc[1] = "idle" /\ res[1].op # "none")

\* No call of thread 1 waits for ever on mutex_: a call that does not
\* return is one during which the process has crashed.
CallsReturnUnlessCrashed ==
    (call[1].op \in {"push", "front", "remove", "size"})
        ~> ((pc[1] = "idle" /\ res[1].op # "none") \/ ~Alive)

(***************************************************************************)
(* Properties of StaticQueue under specification SpecStatic.               *)
(***************************************************************************)
\* C31: for every sequence of push and pop calls on a StaticQueue<T,
\* Capacity>, Capacity >= 1: push returns Full exactly when size was
\* Capacity and Ok otherwise; pop returns Empty exactly when size was 0 and
\* Ok otherwise; an Ok pop returns the oldest element pushed and not yet
\* popped, also after head_ and tail_ have wrapped around the array.
C31_StaticQueueIsFifo ==
    /\ sret.op = "push" =>
           /\ sret.status = Full <=> spre.q.size_ = spre.q.Capacity
           /\ sret.status # Full => sret.status = Ok
    /\ sret.op = "pop" =>
           /\ sret.status = Empty <=> spre.q.size_ = 0
           /\ sret.status # Empty =>
                  /\ sret.status = Ok
                  /\ spre.pending # <<>>
                  /\ sout = Head(spre.pending)

\* An Ok pop after head_ and tail_ have each wrapped twice, from a queue of
\* Capacity >= 2 that held more than one element, the oldest of which
\* differs from the others.
C31_Witness ==
    /\ sret.op = "pop" /\ sret.status = Ok
    /\ wraps.head = MaxWraps /\ wraps.tail = MaxWraps
    /\ sq.Capacity >= 2
    /\ Len(spre.pending) >= 2
    /\ \A i \in 2..Len(spre.pending) : spre.pending[i] # spre.pending[1]
    /\ sout = Head(spre.pending)

(***************************************************************************)
(* Properties of the indices into data_ (specification SpecAny).           *)
(***************************************************************************)
\* Every index a call of the UniqueIdQueue uses to access data_ is smaller
\* than Capacity, the length of std::array<Node, Capacity>.
UniqueIdQueueIndicesInBounds ==
    indices(ret.op, pre.q, ret.arg) \subseteq 0..(Capacity - 1)

\* Every index a call of the TimeoutQueue uses to access data_ is smaller
\* than 65535, the length of std::array<Node, kNil>, when one thread makes
\* the calls.
TimeoutQueueIndicesInBounds ==
    indices_impl(ret.op, pre.tq, ret.arg) \subseteq 0..(kNil - 1)

\* C32: for a UniqueIdQueue<T, Capacity> constructed with any capacity
\* argument, also one larger than Capacity, every index used to access data_
\* in push, front, pop and remove is smaller than Capacity; for a
\* TimeoutQueue used by one thread every such index is smaller than 65535.
C32_IndicesInBounds ==
    /\ \A i \in indices(ret.op, pre.q, ret.arg) : i \in 0..(Capacity - 1)
    /\ \A i \in indices_impl(ret.op, pre.tq, ret.arg) : i \in 0..(kNil - 1)

(***************************************************************************)
(* Properties of several suspended pops (specification SpecWaiters).       *)
(***************************************************************************)
\* Every pop has returned Ok, no two of them with the same item, every push
\* has returned, and the queue is empty.
AllReleased ==
    /\ \A t \in Threads :
          /\ pc[t] = "idle" /\ res[t].op = "pop" /\ res[t].status = Ok
          /\ \A u \in Threads \ {t} : outp[u] # outp[t]
    /\ pc[Pusher] = "idle" /\ ncalls = 2 * NThreads
    /\ empty_impl(tq) /\ tq.head_ = kNil
    /\ \A i \in DOMAIN tq.data_ : ~NodeBool(tq.data_[i])

\* C34: k >= 2 threads are suspended in pop with timeout_us < 0 on the empty
\* queue and k pushes of distinct valid identities follow, nobody else pops
\* or removes: under fair scheduling all k pops eventually return Ok, each
\* with a different item, and the queue ends empty.
C34_EveryWaiterReleased ==
    (ncalls = NThreads /\ \A t \in Threads : pc[t] = "wait_blocked")
        ~> AllReleased

\* Every suspended pop of the scenario is released and returns Ok.
WaitersReturn ==
    (ncalls = NThreads /\ \A t \in Threads : pc[t] = "wait_blocked")
        ~> (\A t \in Threads :
               pc[t] = "idle" /\ res[t].op = "pop" /\ res[t].status = Ok)
====
